---- MODULE Spec2Model ----
(***************************************************************************)
(* A model of the Notion-to-Markdown exporter (package main) and of its    *)
(* in-memory response cache (package cache).                               *)
(*                                                                         *)
(*   SpecCache     : one goroutine calls Set, Get and CleanUp of one Cache *)
(*                   while the wall clock advances.                        *)
(*   SpecCacheConc : two goroutines call them concurrently.                *)
(*   SpecFetch     : calls of fetchChildren, fetchPagesFromDatabase,       *)
(*                   fetchPage and fetchPageContent, one after the other,  *)
(*                   against a server that answers as it likes.            *)
(*   SpecList      : the listing loops of processBlocks (with its          *)
(*                   recursion into child pages), processDatabases and     *)
(*                   fetchTableContent over paginated responses.           *)
(*   SpecSlug      : the calls of pageToMarkdown of one run and the slug   *)
(*                   registry conf.slugRegistered.                         *)
(*   SpecWrite     : writeMarkdown on a page and, recursively, on the      *)
(*                   pages of its Sub-Items, and the files it writes.      *)
(*   SpecFormat    : formatBlockHTML on one rich-text run.                 *)
(*   SpecTable     : renderTable and renderTableCell on the rows of one    *)
(*                   table, with the pages its mentions fetch.             *)
(*   SpecRender    : pageToMarkdown and blocksToMarkdown on the blocks of  *)
(*                   one page, with the answers of its nested fetches.     *)
(*   SpecTree      : writeMarkdown on the pages of one Sub-Items relation, *)
(*                   with the slug registry; SpecTreeFair adds that every  *)
(*                   fetch is answered in the end.                         *)
(***************************************************************************)
EXTENDS Naturals, Sequences, FiniteSets, TLC

(***************************************************************************)
(* Bounds of the model.                                                    *)
(***************************************************************************)
\* the wall clock of the cache runs 0..MaxTime
MaxTime == 3
\* ttl arguments of Set are 1..MaxTTL
MaxTTL == 2

\* ttl arguments of Set are 1..MaxConcTTL when goroutines run concurrently
MaxConcTTL == 1
\* fetch calls made in one run of SpecFetch
MaxCalls == 2
\* 429 responses the server gives to one fetch call
Max429 == 2
\* pages of results the server gives to one listing loop
MaxListPages == 3
\* results in one page of a listing
MaxResults == 2
\* depth of child pages with children below the root block
MaxDepth == 2
\* pages one run converts to markdown
MaxExported == 3
\* positions a page is written at
MaxPosition == 1
\* pages in the trees of Sub-Items that writeMarkdown is called on
MaxWritePages == 3
\* rows of a table
MaxRows == 2
\* cells of a row
MaxCols == 2
\* blocks listed to one call of pageToMarkdown, over all its listings
MaxRenderBlocks == 2
\* calls of writeMarkdown inside one another
MaxTreeDepth == 3

\* goroutines that share one cache
Procs == {"g1", "g2"}
\* the goroutine of the runs in which one goroutine uses the cache
Solo == {"g1"}
Keys == {"k1", "k2"}
Values == {"v1", "v2"}
\* Go's nil interface value
Nil == "nil"

(***************************************************************************)
(* package cache: the pure part.  A Go map is a function whose domain is   *)
(* the set of keys present.                                                *)
(***************************************************************************)
MapSet(m, key, val) ==
  [k \in (DOMAIN m) \cup {key} |-> IF k = key THEN val ELSE m[k]]

MapDelete(m, key) ==
  [k \in (DOMAIN m) \ {key} |-> m[k]]

\* NewCache: an empty item map
NewCache == [k \in {} |-> Nil]

\* time.Time.Before
Before(t, u) == t < u

\* a mutant of Expired: an entry counts as expired at its expiry instant
ExpiredAtExpiry(item, t) == ~Before(t, item.ExpiresAt)

\* item.ExpiresAt.Before(time.Now()), the test of Get and of CleanUp
Expired(item, t) == Before(item.ExpiresAt, t)

\* a mutant of CacheSet: the ttl is not added to the clock
CacheSetNoTTL(m, key, data, ttl, t) ==
  MapSet(m, key, [Data |-> data, ExpiresAt |-> t])

\* the body of Set: t is time.Now()
CacheSet(m, key, data, ttl, t) ==
  MapSet(m, key, [Data |-> data, ExpiresAt |-> t + ttl])

\* a mutant of CacheGet: the expiry of the entry is not looked at
CacheGetNoExpiry(m, key, t) ==
  IF key \notin DOMAIN m
    THEN [Data |-> Nil, found |-> FALSE]
    ELSE [Data |-> m[key].Data, found |-> TRUE]

\* the body of Get: t is time.Now(); the result is the pair (data, found)
CacheGet(m, key, t) ==
  IF key \notin DOMAIN m \/ Expired(m[key], t)
    THEN [Data |-> Nil, found |-> FALSE]
    ELSE [Data |-> m[key].Data, found |-> TRUE]

\* the body of one iteration of CleanUp's loop: t is time.Now()
CleanEntry(m, key, t) ==
  IF key \in DOMAIN m /\ Expired(m[key], t) THEN MapDelete(m, key) ELSE m

(***************************************************************************)
(* The state.                                                              *)
(***************************************************************************)
\* the shared cache of SpecCache and SpecCacheConc
VARIABLES
  now,       \* time.Now(), in clock ticks
  items,     \* Cache.items
  mu,        \* Cache.mu: [w: a writer holds it, readerCount]
  pc,        \* per goroutine: where it is in Set, Get or CleanUp
  arg,       \* per goroutine: the arguments, locals and result of its call
  lastSet    \* history: per key, the data of the last Set(key, data, ttl)
             \* and its expiry, the time of that Set + ttl

\* the fetcher
VARIABLES
  clock,     \* time.Now(), in seconds
  fpc,       \* "idle", "await" (a request is out) or "returned"
  fcall,     \* the arguments of the fetch call in progress, and history
  fcache,    \* the items of the local variable cache of the call
  freqs,     \* the HTTP requests the call has sent, in order
  fresps,    \* what came back for each of them, in order
  fret,      \* what the call returned
  fhist,     \* history: the last successful return of a fetch call
  ncalls     \* fetch calls made so far

\* the listing loops
VARIABLES
  lstack,    \* the calls of processBlocks, processDatabases and
             \* fetchTableContent in progress, innermost last, each with
             \* its locals and the history of its calls of the fetcher
  lhalt,     \* log.Fatalf ended the process
  lfailed,   \* a fetch of the listing of processBlocks failed in this run
  lafter     \* a request was sent or a page written after that failure

\* the slug registry
VARIABLES
  slugRegistered,  \* conf.slugRegistered
  emitted,         \* the slugs of the front matters returned so far
  lastDoc,         \* what the last call of pageToMarkdown returned, with
                   \* the slug it computed and the registry it found
  crashed          \* a failed type assertion or index ended the process

\* writeMarkdown
VARIABLES
  wstack,    \* the calls of writeMarkdown in progress, innermost last
  dirs,      \* the directories that exist
  files,     \* the files written, in the order of the os.WriteFile calls
  wdone,     \* the calls of writeMarkdown that returned
  npages,    \* the pages met so far: those writeMarkdown was called on
             \* by processBlocks and those listed as Sub-Items
  wloop      \* processBlocks: the results of the response it ranges over,
             \* by type, and the index of the next iteration

writeVars == <<wstack, dirs, files, wdone, npages, wloop>>

\* formatBlockHTML
VARIABLES
  formatted  \* the last call of formatBlockHTML: its run and its result

formatVars == <<formatted>>

\* renderTable
VARIABLES
  rendered   \* the last call of renderTable: its table, its rows, what
             \* fetchPage gave for the mentioned page, and its result

tableVars == <<rendered>>

\* pageToMarkdown and blocksToMarkdown
VARIABLES
  rstack,    \* the calls of blocksToMarkdown in progress, innermost last:
             \* the blocks left in the slice, the builder, isChildren
  rphase,    \* pageToMarkdown: "idle", "running", "done" (it returned the
             \* document) or "error" (it returned an error)
  rout,      \* the string that blocksToMarkdown returned to pageToMarkdown
  rlast,     \* the last iteration of the range over blocks: its block,
             \* what its fetches were answered, what it wrote
  rmore,     \* a listing was answered with has_more = true
  rcount     \* the number of blocks listed so far

renderVars == <<rstack, rphase, rout, rlast, rmore, rcount>>

\* writeMarkdown over a Sub-Items relation
VARIABLES
  tgraph,    \* the pages on the server: the Sub-Items list of each, and
             \* the page without a title
  tstack,    \* the calls of writeMarkdown in progress, innermost last
  treg,      \* conf.slugRegistered
  tlog,      \* what the run did so far, in order: slugs registered,
             \* directories made, pages fetched, files written
  tphase,    \* "idle", "running", "returned", "crashed"
  tlimited,  \* the fetch in progress was last answered 429
  tfailed,   \* a fetch of the run has failed
  tcalls     \* the number of calls of writeMarkdown so far

treeVars == <<tgraph, tstack, treg, tlog, tphase, tlimited, tfailed, tcalls>>

cacheVars == <<now, items, mu, pc, arg, lastSet>>

fetchVars == <<clock, fpc, fcall, fcache, freqs, fresps, fret, fhist, ncalls>>

listVars == <<lstack, lhalt, lfailed, lafter>>

slugVars == <<slugRegistered, emitted, lastDoc, crashed>>

vars == <<cacheVars, fetchVars, listVars, slugVars, writeVars, formatVars, tableVars, renderVars, treeVars>>

\* what the actions of the cache leave alone
exceptCache == <<fetchVars, listVars, slugVars, writeVars, formatVars, tableVars, renderVars, treeVars>>

\* what the actions of the fetcher leave alone
exceptFetch == <<cacheVars, listVars, slugVars, writeVars, formatVars, tableVars, renderVars, treeVars>>

\* what the actions of the listing loops leave alone
exceptList == <<cacheVars, fetchVars, slugVars, writeVars, formatVars, tableVars, renderVars, treeVars>>

\* what pageToMarkdown leaves alone
exceptSlug == <<cacheVars, fetchVars, listVars, writeVars, formatVars, tableVars, renderVars, treeVars>>

\* what the actions of writeMarkdown leave alone
exceptWrite == <<cacheVars, fetchVars, listVars, slugVars, formatVars, tableVars, renderVars, treeVars>>

\* what the actions of formatBlockHTML leave alone
exceptFormat == <<cacheVars, fetchVars, listVars, slugVars, writeVars, tableVars, renderVars, treeVars>>

\* what the actions of renderTable leave alone
exceptTable == <<cacheVars, fetchVars, listVars, slugVars, writeVars, formatVars, renderVars, treeVars>>

\* what the actions of SpecRender leave alone
exceptRender == <<cacheVars, fetchVars, listVars, slugVars, writeVars, formatVars, tableVars, treeVars>>

\* what the actions of SpecTree leave alone
exceptTree == <<cacheVars, fetchVars, listVars, slugVars, writeVars, formatVars, tableVars, renderVars>>

NoArg == [op |-> "none"]
NoSet == [set |-> FALSE]

InitCache ==
  /\ now = 0
  /\ items = NewCache
  /\ mu = [w |-> FALSE, readerCount |-> 0]
  /\ pc = [p \in Procs |-> "idle"]
  /\ arg = [p \in Procs |-> NoArg]
  /\ lastSet = [k \in Keys |-> NoSet]

(***************************************************************************)
(* sync.RWMutex: Lock waits until no reader and no writer holds the mutex, *)
(* RLock until no writer holds it.  A goroutine blocked in Lock or RLock   *)
(* has touched nothing yet; the model keeps such a call as a state of its  *)
(* own for Set only (set_wait), where a claim is about calls that overlap. *)
(***************************************************************************)
\* a mutant of CanLock: the writer takes the mutex as a reader would
CanLockAsReader == ~mu.w

CanLock == ~mu.w /\ mu.readerCount = 0

CanRLock == ~mu.w

\* goroutine p is between Lock/RLock and Unlock/RUnlock
Writing(p) == pc[p] \in {"set_cs", "set_done", "clean_cs"}
Reading(p) == pc[p] \in {"get_cs", "get_done"}
Accessing(p) == Writing(p) \/ Reading(p)

(***************************************************************************)
(* Cache.Set                                                               *)
(***************************************************************************)
\* the call; overlaps: another goroutine is inside a Set of another key
SetCall(p, key, data, ttl) ==
  /\ pc[p] = "idle"
  /\ pc' = [pc EXCEPT ![p] = "set_wait"]
  /\ arg' = [arg EXCEPT ![p] =
               [op |-> "Set", key |-> key, data |-> data, ttl |-> ttl,
                overlaps |-> \E q \in Procs \ {p} :
                               /\ pc[q] \in {"set_wait", "set_cs", "set_done"}
                               /\ arg[q].key # key]]
  /\ UNCHANGED <<now, items, mu, lastSet, exceptCache>>

\* c.mu.Lock()
SetLock(p) ==
  /\ pc[p] = "set_wait"
  /\ CanLock
  /\ mu' = [mu EXCEPT !.w = TRUE]
  /\ pc' = [pc EXCEPT ![p] = "set_cs"]
  /\ UNCHANGED <<now, items, arg, lastSet, exceptCache>>

\* c.items[key] = CacheItem{...}.  An unsynchronised write that overlaps
\* another access of the map is a data race: the write may be lost.
SetWrite(p) ==
  /\ pc[p] = "set_cs"
  /\ LET a == arg[p]
         written == CacheSet(items, a.key, a.data, a.ttl, now)
     IN /\ items' \in (IF \E q \in Procs \ {p} : Accessing(q)
                         THEN {written, items} ELSE {written})
        /\ lastSet' = [lastSet EXCEPT ![a.key] =
                         [set |-> TRUE, data |-> a.data, expiry |-> now + a.ttl]]
  /\ pc' = [pc EXCEPT ![p] = "set_done"]
  /\ UNCHANGED <<now, mu, arg, exceptCache>>

\* the deferred c.mu.Unlock(), and the return
SetUnlock(p) ==
  /\ pc[p] = "set_done"
  /\ mu' = [mu EXCEPT !.w = FALSE]
  /\ pc' = [pc EXCEPT ![p] = "idle"]
  /\ arg' = [arg EXCEPT ![p] = NoArg]
  /\ UNCHANGED <<now, items, lastSet, exceptCache>>

(***************************************************************************)
(* Cache.Get                                                               *)
(***************************************************************************)
\* the call and c.mu.RLock()
GetRLock(p, key) ==
  /\ pc[p] = "idle"
  /\ CanRLock
  /\ mu' = [mu EXCEPT !.readerCount = @ + 1]
  /\ pc' = [pc EXCEPT ![p] = "get_cs"]
  /\ arg' = [arg EXCEPT ![p] = [op |-> "Get", key |-> key]]
  /\ UNCHANGED <<now, items, lastSet, exceptCache>>

\* the map lookup and the expiry test; hist is the history of the key at
\* this instant, kept beside the result
GetRead(p) ==
  /\ pc[p] = "get_cs"
  /\ LET r == CacheGet(items, arg[p].key, now)
     IN arg' = [arg EXCEPT ![p] =
                  [op |-> "Get", key |-> arg[p].key, Data |-> r.Data,
                   found |-> r.found, at |-> now, hist |-> lastSet[arg[p].key]]]
  /\ pc' = [pc EXCEPT ![p] = "get_done"]
  /\ UNCHANGED <<now, items, mu, lastSet, exceptCache>>

\* the deferred c.mu.RUnlock(), and the return of (Data, found)
GetRUnlock(p) ==
  /\ pc[p] = "get_done"
  /\ mu' = [mu EXCEPT !.readerCount = @ - 1]
  /\ pc' = [pc EXCEPT ![p] = "idle"]
  /\ arg' = [arg EXCEPT ![p] = NoArg]
  /\ UNCHANGED <<now, items, lastSet, exceptCache>>

(***************************************************************************)
(* Cache.CleanUp: the loop reads the clock anew for every entry.           *)
(***************************************************************************)
\* the call and c.mu.Lock(); the range statement starts over the entries
\* present
CleanLock(p) ==
  /\ pc[p] = "idle"
  /\ CanLock
  /\ mu' = [mu EXCEPT !.w = TRUE]
  /\ pc' = [pc EXCEPT ![p] = "clean_cs"]
  /\ arg' = [arg EXCEPT ![p] =
               [op |-> "CleanUp", todo |-> DOMAIN items,
                before |-> items, calledAt |-> now]]
  /\ UNCHANGED <<now, items, lastSet, exceptCache>>

\* one iteration of the range loop, on any entry not yet visited
CleanStep(p) ==
  /\ pc[p] = "clean_cs"
  /\ \E key \in arg[p].todo :
       /\ items' = CleanEntry(items, key, now)
       /\ arg' = [arg EXCEPT ![p].todo = @ \ {key}]
  /\ UNCHANGED <<now, mu, pc, lastSet, exceptCache>>

\* the loop is over: the deferred c.mu.Unlock(), and the return
CleanUnlock(p) ==
  /\ pc[p] = "clean_cs"
  /\ arg[p].todo = {}
  /\ mu' = [mu EXCEPT !.w = FALSE]
  /\ pc' = [pc EXCEPT ![p] = "idle"]
  /\ arg' = [arg EXCEPT ![p] = NoArg]
  /\ UNCHANGED <<now, items, lastSet, exceptCache>>

\* the wall clock advances
Tick ==
  /\ now < MaxTime
  /\ now' = now + 1
  /\ UNCHANGED <<items, mu, pc, arg, lastSet, exceptCache>>

\* one goroutine uses the cache: every call runs alone
NextCache ==
  \/ \E p \in Solo, key \in Keys, data \in Values, ttl \in 1..MaxTTL :
       SetCall(p, key, data, ttl)
  \/ \E p \in Solo : SetLock(p)
  \/ \E p \in Solo : SetWrite(p)
  \/ \E p \in Solo : SetUnlock(p)
  \/ \E p \in Solo, key \in Keys : GetRLock(p, key)
  \/ \E p \in Solo : GetRead(p)
  \/ \E p \in Solo : GetRUnlock(p)
  \/ \E p \in Solo : CleanLock(p)
  \/ \E p \in Solo : CleanStep(p)
  \/ \E p \in Solo : CleanUnlock(p)
  \/ Tick

\* the goroutines call into the cache concurrently
NextCacheConc ==
  \/ \E p \in Procs, key \in Keys, data \in Values, ttl \in 1..MaxConcTTL :
       SetCall(p, key, data, ttl)
  \/ \E p \in Procs : SetLock(p)
  \/ \E p \in Procs : SetWrite(p)
  \/ \E p \in Procs : SetUnlock(p)
  \/ \E p \in Procs, key \in Keys : GetRLock(p, key)
  \/ \E p \in Procs : GetRead(p)
  \/ \E p \in Procs : GetRUnlock(p)
  \/ \E p \in Procs : CleanLock(p)
  \/ \E p \in Procs : CleanStep(p)
  \/ \E p \in Procs : CleanUnlock(p)
  \/ Tick

(***************************************************************************)
(* The fetcher: fetchChildren, fetchPagesFromDatabase, fetchPage and       *)
(* fetchPageContent are four copies of one function body.                  *)
(***************************************************************************)
Ops == {"fetchChildren", "fetchPagesFromDatabase", "fetchPage", "fetchPageContent"}
Ids == {"a", "b"}
Cursors == {"", "c1"}

\* cache.Set(url, data, 600*time.Second)
FetchTTL == 600
\* time.Sleep(3 * time.Second)
RetrySleep == 3

\* fmt.Sprintf of the url, which is also the cache key: the cursor is no
\* part of it
Url(op, id) ==
  CASE op = "fetchChildren" ->
         "https://api.notion.com/v1/blocks/" \o id \o "/children?page_size=100"
    [] op = "fetchPagesFromDatabase" ->
         "https://api.notion.com/v1/databases/" \o id \o "/query"
    [] op = "fetchPage" ->
         "https://api.notion.com/v1/pages/" \o id
    [] op = "fetchPageContent" ->
         "https://api.notion.com/v1/blocks/" \o id \o "/children"

\* the request as sent: http.NewRequest, the two headers, and the cursor,
\* which replaces the query of fetchChildren and is the body of
\* fetchPagesFromDatabase
Request(op, id, cursor) ==
  [method |-> IF op = "fetchPagesFromDatabase" THEN "POST" ELSE "GET",
   path |-> CASE op = "fetchChildren" -> "/v1/blocks/" \o id \o "/children"
              [] op = "fetchPagesFromDatabase" -> "/v1/databases/" \o id \o "/query"
              [] op = "fetchPage" -> "/v1/pages/" \o id
              [] op = "fetchPageContent" -> "/v1/blocks/" \o id \o "/children",
   rawQuery |-> IF op = "fetchChildren"
                  THEN (IF cursor # "" THEN "start_cursor=" \o cursor
                                       ELSE "page_size=100")
                  ELSE "",
   body |-> IF op = "fetchPagesFromDatabase" /\ cursor # ""
              THEN "{\"start_cursor\":\"" \o cursor \o "\"}" ELSE "",
   version |-> "2022-06-28"]

\* the zero value json.Unmarshal leaves when the body is a JSON object with
\* none of the fields of the response type, such as the API's error object
ZeroValue(op) ==
  IF op = "fetchPage"
    THEN [ID |-> "", Properties |-> "none"]
    ELSE [Results |-> <<>>, NextCursor |-> "", HasMore |-> FALSE]

\* response bodies: the JSON of a response of the type asked for, the JSON
\* error object of the API, or no JSON at all
NoData == [nil |-> TRUE]
OkBody(data) == [json |-> "ok", data |-> data]
ErrorBody == [json |-> "error", data |-> NoData]
GarbageBody == [json |-> "garbage", data |-> NoData]

\* json.Unmarshal(body, &data)
Decode(op, body) ==
  [ok |-> body.json # "garbage",
   data |-> IF body.json = "ok" THEN body.data ELSE ZeroValue(op)]

\* what can come back for a request: client.Do fails (sent = FALSE), or a
\* response arrives whose body can be read or not
Outcome(sent, status, readOk, body) ==
  [sent |-> sent, status |-> status, readOk |-> readOk, body |-> body]

\* sample decoded responses of each operation
Payloads(op) ==
  IF op = "fetchPage"
    THEN {[ID |-> "a", Properties |-> "v1"], [ID |-> "a", Properties |-> "v2"]}
    ELSE {[Results |-> <<>>, NextCursor |-> "c1", HasMore |-> TRUE],
          [Results |-> <<"block">>, NextCursor |-> "", HasMore |-> FALSE]}

Outcomes(op) ==
  {Outcome(FALSE, 0, FALSE, GarbageBody)}
    \cup {Outcome(TRUE, st, FALSE, GarbageBody) : st \in {200, 429}}
    \cup {Outcome(TRUE, 200, TRUE, OkBody(d)) : d \in Payloads(op)}
    \cup {Outcome(TRUE, 200, TRUE, GarbageBody),
          Outcome(TRUE, 429, TRUE, ErrorBody),
          Outcome(TRUE, 404, TRUE, ErrorBody),
          Outcome(TRUE, 500, TRUE, GarbageBody)}

\* a mutant of Handle: a 429 is decoded like any other response
HandleNoRetry(op, o) ==
  IF ~o.sent THEN "error"
  ELSE IF ~o.readOk THEN "error"
  ELSE IF ~Decode(op, o.body).ok THEN "error"
  ELSE "ok"

\* the branches after client.Do, in the order of the code: the error of
\* client.Do, the error of io.ReadAll, the 429 test, the error of
\* json.Unmarshal.  No other status is looked at.
Handle(op, o) ==
  IF ~o.sent THEN "error"
  ELSE IF ~o.readOk THEN "error"
  ELSE IF o.status = 429 THEN "retry"
  ELSE IF ~Decode(op, o.body).ok THEN "error"
  ELSE "ok"

\* what the operation stores in the cache and returns: the decoded
\* response, of which fetchPageContent keeps the Results only
Returned(op, data) ==
  IF op = "fetchPageContent" THEN [Results |-> data.Results] ELSE data

\* the return on a cache hit: fetchPage stores a NotionPage and asserts a
\* *NotionPage, which panics
CachedReturn(op, data) ==
  IF op = "fetchPage"
    THEN [err |-> TRUE, panic |-> TRUE, data |-> NoData, fromCache |-> TRUE]
    ELSE [err |-> FALSE, panic |-> FALSE, data |-> data, fromCache |-> TRUE]

ErrReturn == [err |-> TRUE, panic |-> FALSE, data |-> NoData, fromCache |-> FALSE]
OkReturn(data) == [err |-> FALSE, panic |-> FALSE, data |-> data, fromCache |-> FALSE]
NoReturn == [err |-> FALSE, panic |-> FALSE, data |-> NoData, fromCache |-> FALSE]

NoCall == [op |-> "none"]
NoHist == [set |-> FALSE]

InitFetch ==
  /\ clock = 0
  /\ fpc = "idle"
  /\ fcall = NoCall
  /\ fcache = NewCache
  /\ freqs = <<>>
  /\ fresps = <<>>
  /\ fret = NoReturn
  /\ fhist = NoHist
  /\ ncalls = 0

\* the top of the function body, at time t, when reqs were sent before (by
\* the calls this one is the retry of): cache := cache.NewCache(), the
\* lookup in it, and either the return of the cached value or the request
Enter(op, id, cursor, reqs, t) ==
  LET cache == NewCache
      hit == CacheGet(cache, Url(op, id), t)
  IN /\ fcache' = cache
     /\ IF hit.found
          THEN /\ fpc' = "returned"
               /\ fret' = CachedReturn(op, hit.Data)
               /\ freqs' = reqs
          ELSE /\ fpc' = "await"
               /\ fret' = NoReturn
               /\ freqs' = Append(reqs, Request(op, id, cursor))

\* the arguments of the recursive call after a 429
RetryArgs(c) == c

\* a call of one of the four operations; prior is the last successful
\* return, when it was one of this operation for this id
FetchCall(op, id, cursor) ==
  /\ fpc = "idle"
  /\ ncalls < MaxCalls
  /\ cursor # "" => op \in {"fetchChildren", "fetchPagesFromDatabase"}
  /\ ncalls' = ncalls + 1
  /\ fcall' = [op |-> op, id |-> id, cursor |-> cursor,
               calledAt |-> clock,
               prior |-> IF fhist.set /\ fhist.op = op /\ fhist.id = id
                           THEN fhist ELSE NoHist]
  /\ fresps' = <<>>
  /\ Enter(op, id, cursor, <<>>, clock)
  /\ UNCHANGED <<clock, fhist, exceptFetch>>

\* the request comes back with outcome o, and the rest of the function body
\* runs: an error return, the sleep and the recursive call, or cache.Set and
\* the return of the decoded value
FetchResponse(o) ==
  /\ fpc = "await"
  /\ o \in Outcomes(fcall.op)
  /\ (o.sent /\ o.status = 429) =>
       Cardinality({i \in DOMAIN fresps : fresps[i].status = 429}) < Max429
  /\ fresps' = Append(fresps, o)
  /\ LET h == Handle(fcall.op, o)
         r == RetryArgs(fcall)
         data == Returned(fcall.op, Decode(fcall.op, o.body).data)
     IN CASE h = "error" ->
               /\ fpc' = "returned"
               /\ fret' = ErrReturn
               /\ UNCHANGED <<clock, fcache, freqs, fhist>>
          [] h = "retry" ->
               /\ clock' = clock + RetrySleep
               /\ Enter(r.op, r.id, r.cursor, freqs, clock + RetrySleep)
               /\ UNCHANGED fhist
          [] h = "ok" ->
               /\ fcache' = CacheSet(fcache, Url(fcall.op, fcall.id), data,
                                     FetchTTL, clock)
               /\ fpc' = "returned"
               /\ fret' = OkReturn(data)
               /\ fhist' = [set |-> TRUE, op |-> fcall.op, id |-> fcall.id,
                            at |-> clock, data |-> data]
               /\ UNCHANGED <<clock, freqs>>
  /\ UNCHANGED <<fcall, ncalls, exceptFetch>>

\* the caller goes on (the cache of the call is out of scope), and gap
\* seconds pass before its next call
FetchDone(gap) ==
  /\ fpc = "returned"
  /\ fpc' = "idle"
  /\ clock' = clock + gap
  /\ fcall' = NoCall
  /\ fret' = NoReturn
  /\ freqs' = <<>>
  /\ fresps' = <<>>
  /\ fcache' = NewCache
  /\ UNCHANGED <<fhist, ncalls, exceptFetch>>

\* the time between two calls: none, just less than the TTL, the TTL
Gaps == {0, FetchTTL - 1, FetchTTL}

NextFetch ==
  \/ \E op \in Ops, id \in Ids, cursor \in Cursors : FetchCall(op, id, cursor)
  \/ \E o \in UNION {Outcomes(op) : op \in Ops} : FetchResponse(o)
  \/ \E gap \in Gaps : FetchDone(gap)

(***************************************************************************)
(* The listing loops: processBlocks, processDatabases, fetchTableContent.  *)
(* Each is   for hasMore { response, err := fetch(id, nextCursor); ...;    *)
(*           hasMore = response.HasMore; nextCursor = response.NextCursor; *)
(*           time.Sleep(1s) }.                                             *)
(* The fetcher is called as a whole here: it returns on the first outcome  *)
(* Handle does not retry.  What processBlocks and processDatabases do with *)
(* a page (fetchPage, writeMarkdown) touches no local of the loop.         *)
(***************************************************************************)
Loops == {"processBlocks", "processDatabases", "fetchTableContent"}

\* the fetch function a loop calls
FetcherOf(fn) ==
  IF fn = "processDatabases" THEN "fetchPagesFromDatabase" ELSE "fetchChildren"

\* what a result of a listing can turn out to be when the loop reaches it:
\* a block by its type (a child_page with or without children) in a block
\* listing, a page in a database
ResultKinds(fn, depth) ==
  IF fn = "processDatabases" THEN {"page"}
  ELSE IF fn = "fetchTableContent" THEN {"table_row", "paragraph"}
  ELSE {"link_to_page", "child_page", "paragraph"}
         \cup (IF depth < MaxDepth THEN {"child_page+children"} ELSE {})

\* the cursor the server hands out with page k of a listing
CursorNames == <<"c1", "c2", "c3", "c4", "c5">>

\* the decoded responses the server may give as page k of a listing: up to
\* MaxResults results, and has_more with a cursor, or neither; it says
\* has_more at most MaxListPages - 1 times
ListPayloads(k) ==
  {[Results |-> [i \in 1..n |-> "result"],
    NextCursor |-> IF more THEN CursorNames[k] ELSE "",
    HasMore |-> more] :
     n \in 0..MaxResults,
     more \in IF k < MaxListPages THEN BOOLEAN ELSE {FALSE}}

\* the outcomes the fetcher returns on
ListOutcomes(k) ==
  {Outcome(FALSE, 0, FALSE, GarbageBody),
   Outcome(TRUE, 200, FALSE, GarbageBody),
   Outcome(TRUE, 200, TRUE, GarbageBody),
   Outcome(TRUE, 404, TRUE, ErrorBody)}
    \cup {Outcome(TRUE, 200, TRUE, OkBody(d)) : d \in ListPayloads(k)}

\* the locals of a loop when it is called, and the history of its fetches:
\* calls, the cursor passed each time, and resps, what each decoded
\* response said
NewLoop(fn, id) ==
  [fn |-> fn, id |-> id, nextCursor |-> "", hasMore |-> TRUE,
   phase |-> "head", results |-> <<>>, index |-> 0, allRows |-> 0,
   calls |-> <<>>, resps |-> <<>>]

LastResp(f) == f.resps[Len(f.resps)]

\* a mutant of EndOfPage: the cursor of the response is not taken over
EndOfPageKeepCursor(f) ==
  [f EXCEPT !.hasMore = LastResp(f).HasMore, !.phase = "head"]

\* the end of the loop body: hasMore = response.HasMore,
\* nextCursor = response.NextCursor (and the sleep of one second)
EndOfPage(f) ==
  [f EXCEPT !.hasMore = LastResp(f).HasMore,
            !.nextCursor = LastResp(f).NextCursor,
            !.phase = "head"]

Top == lstack[Len(lstack)]
SetTop(f) == [lstack EXCEPT ![Len(lstack)] = f]

\* a fetch that failed: no response, a body that cannot be read, a status
\* that is not 2xx, or a body that is not JSON
FetchFailed(o) ==
  \/ ~o.sent
  \/ ~o.readOk
  \/ o.status \notin 200..299
  \/ o.body.json = "garbage"

\* the results that make the loop send a request and write a page:
\* fetchPage and writeMarkdown on a link_to_page, writeMarkdown on a page
Exported(r) == r \in {"link_to_page", "page"}

InitList ==
  /\ lstack = <<>>
  /\ lhalt = FALSE
  /\ lfailed = FALSE
  /\ lafter = FALSE

\* main calls processBlocks on the root; a table block makes the renderer
\* call fetchTableContent; processDatabases has no caller in the code
ListStart(fn, id) ==
  /\ lstack = <<>> /\ ~lhalt
  /\ lstack' = <<NewLoop(fn, id)>>
  /\ lfailed' = FALSE
  /\ lafter' = FALSE
  /\ UNCHANGED <<lhalt, exceptList>>

\* the loop test passes and the loop calls the fetcher, which returns on
\* some outcome o: on an error processBlocks and processDatabases end the
\* process (log.Fatalf) and fetchTableContent is about to return it; a
\* response starts the range over Results
ListFetch ==
  /\ lstack # <<>> /\ ~lhalt
  /\ Top.phase = "head" /\ Top.hasMore
  /\ \E o \in ListOutcomes(Len(Top.resps) + 1) :
       LET f == [Top EXCEPT !.calls = Append(@, Top.nextCursor)]
           h == Handle(FetcherOf(f.fn), o)
           data == Decode(FetcherOf(f.fn), o.body).data
       IN IF h = "error"
            THEN /\ lstack' = SetTop([f EXCEPT !.phase = "error"])
                 /\ lhalt' = (f.fn # "fetchTableContent")
                 /\ lfailed' = (lfailed \/ f.fn = "processBlocks")
            ELSE /\ lstack' = SetTop([f EXCEPT
                                        !.phase = "body",
                                        !.results = data.Results,
                                        !.index = 0,
                                        !.resps = Append(@, [NextCursor |-> data.NextCursor,
                                                             HasMore |-> data.HasMore])])
                 /\ lfailed' = (lfailed \/ (f.fn = "processBlocks" /\ FetchFailed(o)))
                 /\ UNCHANGED lhalt
  /\ lafter' = (lafter \/ lfailed)
  /\ UNCHANGED exceptList

\* one iteration of the range over response.Results, on a result that turns
\* out to be of kind r: a child_page block with children makes
\* processBlocks call itself on it, a table_row is appended to allRows, a
\* link_to_page or a database page is fetched and written
ListResult ==
  /\ lstack # <<>> /\ ~lhalt
  /\ Top.phase = "body" /\ Top.index < Len(Top.results)
  /\ \E r \in ResultKinds(Top.fn, Len(lstack)) :
       LET g == [Top EXCEPT !.index = @ + 1,
                            !.allRows = IF r = "table_row" THEN @ + 1 ELSE @]
       IN /\ lstack' = IF r = "child_page+children"
                         THEN Append(SetTop(g), NewLoop("processBlocks", "child"))
                         ELSE SetTop(g)
          /\ lafter' = (lafter \/ (lfailed /\ Exported(r)))
  /\ UNCHANGED <<lhalt, lfailed, exceptList>>

\* the range is over: the end of the loop body
ListEndOfPage ==
  /\ lstack # <<>> /\ ~lhalt
  /\ Top.phase = "body" /\ Top.index = Len(Top.results)
  /\ lstack' = SetTop(EndOfPage(Top))
  /\ UNCHANGED <<lhalt, lfailed, lafter, exceptList>>

\* the loop test fails, or fetchTableContent returns the error of the
\* fetcher: the call returns to its caller
ListReturn ==
  /\ lstack # <<>> /\ ~lhalt
  /\ \/ Top.phase = "head" /\ ~Top.hasMore
     \/ Top.phase = "error"
  /\ lstack' = SubSeq(lstack, 1, Len(lstack) - 1)
  /\ UNCHANGED <<lhalt, lfailed, lafter, exceptList>>

NextList ==
  \/ \E fn \in Loops, id \in Ids : ListStart(fn, id)
  \/ ListFetch
  \/ ListResult
  \/ ListEndOfPage
  \/ ListReturn

(***************************************************************************)
(* pageToMarkdown and the slug registry.  A string is the sequence of its  *)
(* characters.  A property of a page is absent or holds a list of          *)
(* rich-text runs, each run its plain_text.                                *)
(***************************************************************************)
RECURSIVE ReplaceAll(_, _, _)
\* strings.ReplaceAll(s, old, new), old one character
ReplaceAll(s, old, new) ==
  IF s = <<>> THEN <<>>
  ELSE (IF Head(s) = old THEN new ELSE <<Head(s)>>)
         \o ReplaceAll(Tail(s), old, new)

\* a mutant of stringExists: the first entry of the slice is not looked at
StringExistsButFirst(slice, str) ==
  \E i \in 2..Len(slice) : slice[i] = str

\* stringExists(slice, str)
StringExists(slice, str) ==
  \E i \in 1..Len(slice) : slice[i] = str

Absent == [present |-> FALSE, runs |-> <<>>]
Prop(runs) == [present |-> TRUE, runs |-> runs]

\* sample pages: the title "in" or "a b" (or a title list without a run, or
\* no Name), and a Slug that is absent, empty, "in", "(in)", "in-dup" or
\* "a b"
SlugPages ==
  [Name : {Absent, Prop(<<>>), Prop(<< <<"i", "n">> >>),
           Prop(<< <<"a", " ", "b">> >>)},
   Slug : {Absent, Prop(<<>>), Prop(<< <<"i", "n">> >>),
           Prop(<< <<"(", "i", "n", ")">> >>),
           Prop(<< <<"i", "n", "-", "d", "u", "p">> >>),
           Prop(<< <<"a", " ", "b">> >>)},
   Keywords : {Absent, Prop(<<>>), Prop(<< <<"k">> >>)}]

\* extractPageProperties(page): the title is the first run of Name, which
\* is indexed unchecked; the slug is the first run of Slug, or the title
\* when Slug has no run, with hyphens for spaces, or empty without Slug
ExtractPageProperties(page) ==
  IF page.Name.present /\ page.Name.runs = <<>>
    THEN [panic |-> TRUE, title |-> <<>>, slug |-> <<>>, keywords |-> <<>>]
    ELSE LET title == IF page.Name.present THEN page.Name.runs[1] ELSE <<>>
         IN [panic |-> FALSE,
             title |-> title,
             slug |-> IF page.Slug.present
                        THEN ReplaceAll(IF Len(page.Slug.runs) > 0
                                          THEN page.Slug.runs[1] ELSE title,
                                        " ", <<"-">>)
                        ELSE <<>>,
             keywords |-> IF page.Keywords.present /\ Len(page.Keywords.runs) > 0
                            THEN page.Keywords.runs[1] ELSE <<>>]

\* slug = ReplaceAll(slug, "(", ""); slug = ReplaceAll(slug, ")", "")
StripParens(slug) == ReplaceAll(ReplaceAll(slug, "(", <<>>), ")", <<>>)

\* a mutant of Deduplicate: the slug is emitted as it was computed
DeduplicateNever(registry, slug) == slug

\* if stringExists(conf.slugRegistered, slug) { slug += "-dup" }
Deduplicate(registry, slug) ==
  IF StringExists(registry, slug) THEN slug \o <<"-", "d", "u", "p">> ELSE slug

NoDoc ==
  [called |-> FALSE, err |-> FALSE, title |-> <<>>, slug |-> <<>>,
   tags |-> <<>>, position |-> 0, computed |-> <<>>, before |-> <<>>]

InitSlug ==
  /\ slugRegistered = <<>>
  /\ emitted = <<>>
  /\ lastDoc = NoDoc
  /\ crashed = FALSE

\* pageToMarkdown(token, page, position), where fetchPageContent fails or
\* returns no block: a panic in extractPageProperties ends the process, an
\* error of fetchPageContent is returned before the registry is looked at
PageToMarkdown(page, position, contentOk) ==
  /\ ~crashed
  /\ Len(slugRegistered) < MaxExported
  /\ LET props == ExtractPageProperties(page)
         computed == StripParens(props.slug)
         slug == Deduplicate(slugRegistered, computed)
     IN IF props.panic
          THEN /\ crashed' = TRUE
               /\ UNCHANGED <<slugRegistered, emitted, lastDoc>>
          ELSE IF ~contentOk
            THEN /\ lastDoc' = [NoDoc EXCEPT !.called = TRUE, !.err = TRUE,
                                              !.before = slugRegistered]
                 /\ UNCHANGED <<slugRegistered, emitted, crashed>>
            ELSE /\ slugRegistered' = Append(slugRegistered, slug)
                 /\ emitted' = Append(emitted, slug)
                 /\ lastDoc' = [called |-> TRUE, err |-> FALSE,
                                title |-> props.title, slug |-> slug,
                                tags |-> <<"[">> \o props.keywords \o <<"]">>,
                                position |-> position,
                                computed |-> computed,
                                before |-> slugRegistered]
                 /\ UNCHANGED crashed
  /\ UNCHANGED exceptSlug

NextSlug ==
  \E page \in SlugPages, position \in 0..MaxPosition, contentOk \in BOOLEAN :
    PageToMarkdown(page, position, contentOk)

(***************************************************************************)
(* writeMarkdown.  A path is the sequence of its segments.  The pages are  *)
(* well formed here, and pageToMarkdown either returns the markdown of the *)
(* page or the error of fetchPageContent.  os.WriteFile succeeds exactly   *)
(* if the directory of the file exists.                                    *)
(***************************************************************************)
OutputDir == <<"out">>

\* the ids of the pages a Sub-Items relation lists
ChildIds == <<"a", "b", "c", "d">>

Backspace == "<backspace>"
Titles == {<<"T">>, <<"\"", "\\">>}

\* the title of the page of a Sub-Items relation
ChildTitle(id) == <<"T", id>>

\* a page: an id, a title, and what extractPageRelations returns as
\* childPages, n ids
WritePage(id, title, n) ==
  [ID |-> id, title |-> title, childPages |-> [i \in 1..n |-> ChildIds[i]]]

\* the title as written between the quotes of "label"
JsonEscape(title) ==
  ReplaceAll(ReplaceAll(ReplaceAll(ReplaceAll(ReplaceAll(ReplaceAll(ReplaceAll(
    title, "\\", <<"\\", "\\">>), "\"", <<"\\", "\"">>), "\n", <<"\\", "n">>),
    "\t", <<"\\", "t">>), "\r", <<"\\", "r">>), Backspace, <<"\\", "b">>),
    "\f", <<"\\", "f">>)

\* os.MkdirAll(path): the directory and every directory above it
MkdirAll(ds, path) == ds \cup {SubSeq(path, 1, k) : k \in 1..Len(path)}

\* a mutant of Written: the file is put before the files written so far
WrittenFirst(fs, file) == <<file>> \o fs

\* os.WriteFile: the file is written if its directory exists
Written(fs, file) == Append(fs, file)

\* sample responses for processBlocks to range over: one or two results,
\* each a link_to_page block or a block of another type
ResultPages ==
  UNION {[1..n -> {"link_to_page", "paragraph"}] : n \in 1..2}

\* where a page was listed: the list up to it, and its place in the list
\* counted from 1
Place(list, at) == [list |-> list, at |-> at]

\* a mutant of ChildIndex: the children are counted from one
ChildIndexFromOne(next) == next

\* cPageIndex in the iteration that handles childPages[next]
ChildIndex(next) == next - 1

\* the locals of writeMarkdown after pageToMarkdown and
\* extractPageRelations: dir is outputDir, or outputDir/page.ID when the
\* page lists children
NewWrite(outputDir, page, position, run, place) ==
  [page |-> page, position |-> position, outputDir |-> outputDir,
   place |-> place,
   dir |-> IF Len(page.childPages) > 0
             THEN Append(outputDir, page.ID) ELSE outputDir,
   HasChildren |-> FALSE, next |-> 1, run |-> run]

\* if len(childPages) > 0 { if os.Stat(dir) says not exist { os.MkdirAll } }
DirsAfterEntry(ds, f, mkdirOk) ==
  IF Len(f.page.childPages) > 0 /\ f.dir \notin ds /\ mkdirOk
    THEN MkdirAll(ds, f.dir) ELSE ds

Returned2(f, err) ==
  [outputDir |-> f.outputDir, page |-> f.page, position |-> f.position,
   run |-> f.run, err |-> err]

WTop == wstack[Len(wstack)]

InitWrite ==
  /\ wstack = <<>>
  /\ dirs = {OutputDir}
  /\ files = <<>>
  /\ wdone = {}
  /\ npages = 0
  /\ wloop = [results |-> <<>>, index |-> 0]

\* processBlocks: the range over the results of a response is over, and
\* fetchChildren returns the next response
WriteFetch ==
  /\ wstack = <<>>
  /\ wloop.index = Len(wloop.results)
  /\ npages < MaxWritePages
  /\ \E results \in ResultPages : wloop' = [results |-> results, index |-> 0]
  /\ UNCHANGED <<wstack, dirs, files, wdone, npages, exceptWrite>>

\* processBlocks: an iteration on a block of another type, or on a
\* link_to_page whose page cannot be fetched (continue)
WriteSkip ==
  /\ wstack = <<>>
  /\ wloop.index < Len(wloop.results)
  /\ wloop' = [wloop EXCEPT !.index = @ + 1]
  /\ UNCHANGED <<wstack, dirs, files, wdone, npages, exceptWrite>>

\* processBlocks: an iteration on a link_to_page whose page is fetched
\* calls writeMarkdown(outputDir, token, page, index)
WriteCall(title, n, renderOk, mkdirOk) ==
  /\ wstack = <<>>
  /\ wloop.index < Len(wloop.results)
  /\ wloop.results[wloop.index + 1] = "link_to_page"
  /\ wloop' = [wloop EXCEPT !.index = @ + 1]
  /\ npages + 1 + n <= MaxWritePages
  /\ npages' = npages + 1 + n
  /\ LET f == NewWrite(OutputDir, WritePage("p", title, n), wloop.index,
                       npages + 1,
                       Place(SubSeq(wloop.results, 1, wloop.index + 1),
                             wloop.index + 1))
     IN IF ~renderOk
          THEN /\ wdone' = wdone \cup {Returned2(f, TRUE)}
               /\ UNCHANGED <<wstack, dirs>>
          ELSE /\ wstack' = <<f>>
               /\ dirs' = DirsAfterEntry(dirs, f, mkdirOk)
               /\ UNCHANGED wdone
  /\ UNCHANGED <<files, exceptWrite>>

\* one iteration of the range over childPages: fetchPage fails and the
\* child is skipped, or writeMarkdown is called on the child, which returns
\* the error of pageToMarkdown at once or goes on
WriteChild(fetchOk, n, renderOk, mkdirOk) ==
  /\ wstack # <<>>
  /\ WTop.next <= Len(WTop.page.childPages)
  /\ LET child == WTop.page.childPages[WTop.next]
         m == IF fetchOk THEN n ELSE 0
         f == NewWrite(WTop.dir, WritePage(child, ChildTitle(child), m),
                       ChildIndex(WTop.next), WTop.run,
                       Place(SubSeq(WTop.page.childPages, 1, WTop.next), WTop.next))
         skipped == [wstack EXCEPT ![Len(wstack)].next = @ + 1]
     IN /\ npages + m <= MaxWritePages
        /\ npages' = npages + m
        /\ IF ~fetchOk
             THEN /\ wstack' = skipped
                  /\ UNCHANGED <<dirs, wdone>>
             ELSE IF ~renderOk
               THEN /\ wstack' = skipped
                    /\ wdone' = wdone \cup {Returned2(f, TRUE)}
                    /\ UNCHANGED dirs
               ELSE /\ wstack' = Append(wstack, f)
                    /\ dirs' = DirsAfterEntry(dirs, f, mkdirOk)
                    /\ UNCHANGED wdone
  /\ UNCHANGED <<files, wloop, exceptWrite>>

\* after the range: the category file if a child was written, then the
\* file of the page, whose error is returned; the caller sets HasChildren
\* when it gets no error
WriteFinish ==
  /\ wstack # <<>>
  /\ WTop.next > Len(WTop.page.childPages)
  /\ LET f == WTop
         owner == Append(f.outputDir, f.page.ID)
         ok == f.dir \in dirs
         category == [dir |-> f.dir, name |-> "_category_.json",
                      owner |-> owner, run |-> f.run,
                      label |-> JsonEscape(f.page.title),
                      position |-> f.position, place |-> f.place]
         doc == [dir |-> f.dir,
                 name |-> (IF f.HasChildren THEN "index" ELSE f.page.ID) \o ".md",
                 owner |-> owner, run |-> f.run,
                 label |-> <<>>, position |-> f.position, place |-> f.place]
         afterCategory == IF f.HasChildren /\ ok THEN Written(files, category)
                                                 ELSE files
         rest == SubSeq(wstack, 1, Len(wstack) - 1)
     IN /\ files' = IF ok THEN Written(afterCategory, doc) ELSE afterCategory
        /\ wdone' = wdone \cup {Returned2(f, ~ok)}
        /\ wstack' = IF rest = <<>> THEN rest
                     ELSE [rest EXCEPT ![Len(rest)].next = @ + 1,
                                       ![Len(rest)].HasChildren = @ \/ ok]
  /\ UNCHANGED <<dirs, npages, wloop, exceptWrite>>

NextWrite ==
  \/ WriteFetch
  \/ WriteSkip
  \/ \E title \in Titles, n \in 0..Len(ChildIds),
        renderOk \in BOOLEAN, mkdirOk \in BOOLEAN :
       WriteCall(title, n, renderOk, mkdirOk)
  \/ \E fetchOk \in BOOLEAN, n \in 0..Len(ChildIds),
        renderOk \in BOOLEAN, mkdirOk \in BOOLEAN :
       WriteChild(fetchOk, n, renderOk, mkdirOk)
  \/ WriteFinish

(***************************************************************************)
(* formatBlockHTML.  A string is the sequence of its pieces: a piece is a  *)
(* character of a text of the server or a literal of the code.             *)
(***************************************************************************)
MiddleDot == "<middle dot>"

AnnotationSets ==
  [Bold : BOOLEAN, Italic : BOOLEAN, Strikethrough : BOOLEAN,
   Underline : BOOLEAN, Code : BOOLEAN, Color : {"default"}]

Plain == [Bold |-> FALSE, Italic |-> FALSE, Strikethrough |-> FALSE,
          Underline |-> FALSE, Code |-> FALSE, Color |-> "default"]

\* sample texts: plain, with a newline, with a middle dot, with a pipe
Texts == {<<"x">>, <<"a", "\n", "b">>, <<MiddleDot, "y">>, <<"c", "|">>}

\* a RichText run that is not a mention
TextRun(text, ann) ==
  [Type |-> "text", Annotations |-> ann, PlainText |-> text, Mention |-> ""]

Wrap(open, text, close) == <<open>> \o text \o <<close>>

\* a mutant of Styled: the code tag is applied first
StyledCodeFirst(text, ann) ==
  LET c == IF ann.Code THEN Wrap("<code>", text, "</code>") ELSE text
      b == IF ann.Bold THEN Wrap("<strong>", c, "</strong>") ELSE c
      i == IF ann.Italic THEN Wrap("<em>", b, "</em>") ELSE b
      u == IF ann.Underline THEN Wrap("<u>", i, "</u>") ELSE i
  IN IF ann.Strikethrough THEN Wrap("<del>", u, "</del>") ELSE u

\* the replacements and the five tests of formatBlockHTML, in its order
Styled(text, ann) ==
  LET t == ReplaceAll(ReplaceAll(text, MiddleDot, <<"-">>), "\n", <<"<br />">>)
      b == IF ann.Bold THEN Wrap("<strong>", t, "</strong>") ELSE t
      i == IF ann.Italic THEN Wrap("<em>", b, "</em>") ELSE b
      u == IF ann.Underline THEN Wrap("<u>", i, "</u>") ELSE i
      d == IF ann.Strikethrough THEN Wrap("<del>", u, "</del>") ELSE u
  IN IF ann.Code THEN Wrap("<code>", d, "</code>") ELSE d

\* formatBlockHTML(rt)
FormatBlockHTML(rt) == Styled(rt.PlainText, rt.Annotations)

NotFormatted == [called |-> FALSE, rt |-> TextRun(<<>>, Plain), out |-> <<>>]

InitFormat == formatted = NotFormatted

\* a call of formatBlockHTML
FormatRun(rt) ==
  /\ formatted' = [called |-> TRUE, rt |-> rt, out |-> FormatBlockHTML(rt)]
  /\ UNCHANGED exceptFormat

NextFormat ==
  \E text \in Texts, ann \in AnnotationSets : FormatRun(TextRun(text, ann))

(***************************************************************************)
(* renderTable and renderTableCell.  What fetchPage returns for a page id  *)
(* is given by fetched: an error, or a page.                               *)
(***************************************************************************)
RECURSIVE Concat(_)
\* the concatenation of a sequence of strings
Concat(strs) == IF strs = <<>> THEN <<>> ELSE Head(strs) \o Concat(Tail(strs))

\* conf.DocsRoot, the default of the flag -docs
DocsRoot == <<"/", "d", "o", "c", "s">>

\* a run that mentions the page id
MentionRun(id, ann) ==
  [Type |-> "mention", Annotations |-> ann, PlainText |-> <<"m">>, Mention |-> id]

Bold == [Plain EXCEPT !.Bold = TRUE]

\* what fetchPage can return for a mentioned or linked page: an error, a
\* page with the title T| and the slug /s, a page with a title and no Slug
FetchErr == [err |-> TRUE, page |-> [Name |-> Absent, Slug |-> Absent, Keywords |-> Absent]]
FetchedPage(page) == [err |-> FALSE, page |-> page]
PageOutcomes ==
  {FetchErr,
   FetchedPage([Name |-> Prop(<< <<"T", "|">> >>),
                Slug |-> Prop(<< <<"/", "s">> >>), Keywords |-> Absent]),
   FetchedPage([Name |-> Prop(<< <<"T">> >>), Slug |-> Absent,
                Keywords |-> Absent])}

\* title, slug, _ := extractPageProperties(*page); the slug that begins
\* with "/" gets conf.DocsRoot in front; fmt.Sprintf("[%s](%s)", title, slug)
PageLink(page) ==
  LET props == ExtractPageProperties(page)
      slug == IF Len(props.slug) > 0 /\ props.slug[1] = "/"
                THEN DocsRoot \o props.slug ELSE props.slug
  IN <<"[">> \o props.title \o <<"]", "(">> \o slug \o <<")">>

\* strings.TrimSuffix(s, suffix), suffix one piece
TrimSuffix(str, suffix) ==
  IF Len(str) > 0 /\ str[Len(str)] = suffix
    THEN SubSeq(str, 1, Len(str) - 1) ELSE str

\* one iteration of the range over the runs of a cell: a mention whose
\* page cannot be fetched is skipped, another mention becomes the link to
\* its page; then the run is styled as in formatBlockHTML
CellRun(rt, fetched) ==
  IF rt.Type = "mention" /\ fetched.err THEN <<>>
  ELSE Styled(IF rt.Type = "mention" THEN PageLink(fetched.page)
                                      ELSE rt.PlainText,
              rt.Annotations)

\* a mutant of RenderTableCell: the pipes are left as they are
RenderTableCellRaw(cell, fetched) ==
  TrimSuffix(Concat([i \in 1..Len(cell) |-> CellRun(cell[i], fetched)]), "\n")

\* renderTableCell(cell)
RenderTableCell(cell, fetched) ==
  ReplaceAll(
    TrimSuffix(Concat([i \in 1..Len(cell) |-> CellRun(cell[i], fetched)]), "\n"),
    "|", <<"&#124;">>)

\* one row: <tr>, its cells in <th> when it is the first row (i == 0) and
\* in <td> otherwise, </tr>
RenderRow(i, row, fetched) ==
  <<"<tr>">>
    \o Concat([c \in 1..Len(row.Cells) |->
                 IF i = 0
                   THEN Wrap("<th>", RenderTableCell(row.Cells[c], fetched), "</th>")
                   ELSE Wrap("<td>", RenderTableCell(row.Cells[c], fetched), "</td>")])
    \o <<"</tr>">>

\* renderTable(table, rows)
RenderTable(tableIsNil, rows, fetched) ==
  IF tableIsNil \/ Len(rows) = 0 THEN <<>>
  ELSE <<"<table>">>
         \o Concat([r \in 1..Len(rows) |-> RenderRow(r - 1, rows[r], fetched)])
         \o <<"</table>">>

\* sample cells: a plain run, a bold run with a pipe, a plain run and a
\* mention
SampleCells ==
  {<<TextRun(<<"x">>, Plain)>>,
   <<TextRun(<<"c", "|">>, Bold)>>,
   <<TextRun(<<"a", "\n">>, Plain), MentionRun("m", Plain)>>}

\* sample rows: up to MaxRows rows of the same number of cells, up to
\* MaxCols
SampleRows ==
  UNION {[1..n -> [Cells : [1..c -> SampleCells]]] :
           n \in 0..MaxRows, c \in 1..MaxCols}

NotRendered ==
  [called |-> FALSE, tableIsNil |-> TRUE, rows |-> <<>>, fetched |-> FetchErr,
   out |-> <<>>]

InitTable == rendered = NotRendered

\* a call of renderTable
RenderTableCall ==
  /\ ~rendered.called
  /\ \E tableIsNil \in BOOLEAN, rows \in SampleRows, fetched \in PageOutcomes :
       /\ tableIsNil => fetched = FetchErr
       /\ rendered' = [called |-> TRUE, tableIsNil |-> tableIsNil, rows |-> rows,
                       fetched |-> fetched,
                       out |-> RenderTable(tableIsNil, rows, fetched)]
  /\ UNCHANGED exceptTable

\* the caller has written the result to its builder
RenderTableReturn ==
  /\ rendered.called
  /\ rendered' = NotRendered
  /\ UNCHANGED exceptTable

NextTable ==
  \/ RenderTableCall
  \/ RenderTableReturn

(***************************************************************************)
(* pageToMarkdown, fetchPageContent and blocksToMarkdown.  The blocks of a *)
(* listing are drawn one at a time, when the range reaches them.           *)
(***************************************************************************)
\* a block, with the fields that blocksToMarkdown reads
Block(type, richText, hasChildren) ==
  [Type |-> type, RichText |-> richText, HasChildren |-> hasChildren]

\* sample blocks: a paragraph with a run, a mention and a bold run; a list
\* item with a run and a mention; a heading with a bold run; a table; a
\* table row; a link to a page; a child page; a block the API reports as
\* "unsupported"; a block of a type without a case ("video")
SampleBlocks ==
  {Block("paragraph",
         <<TextRun(<<"x">>, Plain), MentionRun("m", Plain), TextRun(<<"y">>, Bold)>>,
         h) : h \in BOOLEAN}
  \cup {Block("bulleted_list_item",
               <<TextRun(<<"i">>, Plain), MentionRun("m", Plain)>>, h) : h \in BOOLEAN}
  \cup {Block("heading_1", <<TextRun(<<"h">>, Bold)>>, FALSE),
        Block("table", <<>>, TRUE), Block("table_row", <<>>, FALSE),
        Block("link_to_page", <<>>, FALSE), Block("child_page", <<>>, FALSE),
        Block("unsupported", <<>>, FALSE), Block("video", <<>>, FALSE)}

\* the block on the second page of a listing that has more than one page
MoreBlock == Block("paragraph", <<TextRun(<<"z">>, Plain)>>, FALSE)

\* what fetchPage returns for a response that is not 2xx and carries JSON:
\* a page without properties, and no error
NotFoundPage == FetchedPage([Name |-> Absent, Slug |-> Absent, Keywords |-> Absent])

\* what fetchPage can return for the page of a mention or of a link
RenderPageOutcomes ==
  {FetchErr, NotFoundPage,
   FetchedPage([Name |-> Prop(<< <<"T">> >>), Slug |-> Prop(<< <<"/", "s">> >>),
                Keywords |-> Absent])}

\* what fetchTableContent can return: an error, or the rows of the table
RowsErr == [err |-> TRUE, rows |-> <<>>]
RowsOutcomes ==
  {RowsErr,
   [err |-> FALSE, rows |-> <<>>],
   [err |-> FALSE,
    rows |-> << [Cells |-> << <<TextRun(<<"h">>, Plain)>> >>],
                [Cells |-> << <<MentionRun("m", Plain), TextRun(<<"c">>, Plain)>> >>] >>]}

\* what fetchPageContent can return: an error, or response.Results, here
\* the number n of blocks on the first page of the listing; has_more is
\* the field of the response that says whether the listing has more pages
ContentErr == [err |-> TRUE, n |-> 0, has_more |-> FALSE]
ContentOutcomes ==
  {ContentErr}
  \cup [err : {FALSE}, n : 0..MaxRenderBlocks, has_more : BOOLEAN]

\* one iteration of the range over the runs of a paragraph: a mention whose
\* page cannot be fetched is skipped (continue), another mention becomes
\* the link to its page, another run goes through formatBlockHTML
ParagraphRun(t, fetched) ==
  IF t.Type = "mention"
    THEN IF fetched.err THEN <<>> ELSE PageLink(fetched.page)
    ELSE FormatBlockHTML(t)

RECURSIVE ParagraphTextAbort(_, _)
\* a mutant of ParagraphText: the range over the runs ends at the mention
\* whose page cannot be fetched
ParagraphTextAbort(richText, fetched) ==
  IF richText = <<>> THEN <<>>
  ELSE IF Head(richText).Type = "mention" /\ fetched.err THEN <<>>
  ELSE ParagraphRun(Head(richText), fetched)
         \o ParagraphTextAbort(Tail(richText), fetched)

RECURSIVE ParagraphText(_, _)
\* plainText after the range over block.Paragraph.RichText
ParagraphText(richText, fetched) ==
  IF richText = <<>> THEN <<>>
  ELSE ParagraphRun(Head(richText), fetched)
         \o ParagraphText(Tail(richText), fetched)

\* the mark a heading starts with
HeadingMark(type) ==
  CASE type = "heading_1" -> "# "
    [] type = "heading_2" -> "## "
    [] type = "heading_3" -> "### "

\* fmt.Sprintf("[Unsupported block type: %s]  \n", block.Type)
UnsupportedText(type) == <<"[Unsupported block type: ", type, "]", "  \n">>

\* the switch on block.Type: what the iteration writes to the builder, and
\* whether it ends with continue, before the test of block.HasChildren
Switch(block, isChildren, fetched, rows) ==
  CASE block.Type = "paragraph" ->
         [text |-> ParagraphText(block.RichText, fetched) \o <<"  \n">>,
          continue |-> FALSE]
    [] block.Type \in {"heading_1", "heading_2", "heading_3"} ->
         [text |-> <<HeadingMark(block.Type)>>
                     \o Concat([i \in 1..Len(block.RichText) |->
                                  block.RichText[i].PlainText])
                     \o <<"  \n">>,
          continue |-> FALSE]
    [] block.Type = "bulleted_list_item" ->
         [text |-> (IF isChildren THEN <<"\t">> ELSE <<>>)
                     \o <<"- ">>
                     \o Concat([i \in 1..Len(block.RichText) |->
                                  FormatBlockHTML(block.RichText[i])])
                     \o <<"  \n">>,
          continue |-> FALSE]
    [] block.Type = "table" ->
         [text |-> IF rows.err
                     THEN <<"[Error: Could not fetch table content]\n">>
                     ELSE RenderTable(FALSE, rows.rows, fetched) \o <<"  \n">>,
          continue |-> FALSE]
    [] block.Type = "table_row" ->
         [text |-> RenderTable(TRUE, <<[Cells |-> <<>>]>>, fetched) \o <<"  \n">>,
          continue |-> FALSE]
    [] block.Type = "link_to_page" ->
         IF fetched.err
           THEN [text |-> <<>>, continue |-> TRUE]
           ELSE [text |-> PageLink(fetched.page) \o <<"<br/>">>, continue |-> FALSE]
    [] block.Type = "unsupported" -> [text |-> <<>>, continue |-> FALSE]
    [] OTHER -> [text |-> UnsupportedText(block.Type), continue |-> FALSE]

\* a call of blocksToMarkdown on n blocks
NewRender(n, isChildren) == [left |-> n, out |-> <<>>, isChildren |-> isChildren]

NoBlock ==
  [seen |-> FALSE, block |-> Block("", <<>>, FALSE), isChildren |-> FALSE,
   fetched |-> FetchErr, rows |-> RowsErr, children |-> ContentErr,
   before |-> <<>>, text |-> <<>>, continue |-> FALSE, depth |-> 0, left |-> 0]

RTop == rstack[Len(rstack)]

InitRender ==
  /\ rstack = <<>>
  /\ rphase = "idle"
  /\ rout = <<>>
  /\ rlast = NoBlock
  /\ rmore = FALSE
  /\ rcount = 0

\* pageToMarkdown: blocks, err := fetchPageContent(token, page.ID); an
\* error is returned, otherwise blocksToMarkdown(token, blocks, false)
RenderCall ==
  /\ rphase = "idle"
  /\ \E c \in ContentOutcomes :
       /\ c.n <= MaxRenderBlocks
       /\ rphase' = IF c.err THEN "error" ELSE "running"
       /\ rstack' = IF c.err THEN <<>> ELSE <<NewRender(c.n, FALSE)>>
       /\ rmore' = c.has_more
       /\ rcount' = c.n
  /\ UNCHANGED <<rout, rlast, exceptRender>>

\* one iteration of the range over blocks: the switch, then, if
\* block.HasChildren, fetchPageContent(token, block.ID) and the call of
\* blocksToMarkdown(token, blocks, true) unless the fetch failed
RenderBlock ==
  /\ rphase = "running"
  /\ RTop.left > 0
  /\ \E block \in SampleBlocks, fetched \in RenderPageOutcomes,
        rows \in RowsOutcomes, c \in ContentOutcomes :
       LET usesPage == \/ block.Type \in {"paragraph", "link_to_page"}
                       \/ block.Type = "table" /\ rows.rows # <<>>
           sw == Switch(block, RTop.isChildren, fetched, rows)
           fetches == block.HasChildren /\ ~sw.continue
           top == [RTop EXCEPT !.left = @ - 1, !.out = @ \o sw.text]
       IN /\ ~usesPage => fetched = FetchErr
          /\ block.Type # "table" => rows = RowsErr
          /\ ~fetches => c = ContentErr
          /\ rcount + c.n <= MaxRenderBlocks
          /\ rstack' = [rstack EXCEPT ![Len(rstack)] = top]
                         \o (IF fetches /\ ~c.err
                               THEN <<NewRender(c.n, TRUE)>> ELSE <<>>)
          /\ rlast' = [seen |-> TRUE, block |-> block,
                       isChildren |-> RTop.isChildren, fetched |-> fetched,
                       rows |-> rows, children |-> c,
                       before |-> RTop.out, text |-> sw.text,
                       continue |-> sw.continue, depth |-> Len(rstack),
                       left |-> RTop.left]
          /\ rmore' = (rmore \/ c.has_more)
          /\ rcount' = rcount + c.n
  /\ UNCHANGED <<rphase, rout, exceptRender>>

\* return markdownBuilder.String(): to the iteration that called, which
\* writes it to its builder, or to pageToMarkdown
RenderReturn ==
  /\ rphase = "running"
  /\ RTop.left = 0
  /\ IF Len(rstack) > 1
       THEN /\ rstack' = [SubSeq(rstack, 1, Len(rstack) - 1)
                            EXCEPT ![Len(rstack) - 1].out = @ \o RTop.out]
            /\ UNCHANGED <<rphase, rout>>
       ELSE /\ rstack' = <<>>
            /\ rphase' = "done"
            /\ rout' = RTop.out
  /\ UNCHANGED <<rlast, rmore, rcount, exceptRender>>

NextRender == RenderCall \/ RenderBlock \/ RenderReturn

(***************************************************************************)
(* writeMarkdown on a page of a Sub-Items relation: pageToMarkdown with    *)
(* the slug registry, the range over the child pages, the files.  The      *)
(* relation may have cycles.  Directories are made without failure here.   *)
(***************************************************************************)
TreeIds == {"p", "q", "r"}

\* the Sub-Items relations of the run: p lists nothing, q, or q and r; q
\* lists nothing, r, or p; r lists nothing or itself; one page at most has
\* no title; the Slug of r
TreeGraphs ==
  [sub : [p : {<<>>, <<"q">>, <<"q", "r">>},
          q : {<<>>, <<"r">>, <<"p">>},
          r : {<<>>, <<"r">>}],
   untitled : {"", "q", "r"},
   rslug : {<<"s">>, <<"t">>}]

\* the page id as fetchPage returns it: p and q have the Slug s; the page
\* without a title has an empty title list
TreePage(graph, id) ==
  [Name |-> IF id = graph.untitled THEN Prop(<<>>) ELSE Prop(<< <<"T", id>> >>),
   Slug |-> Prop(<< IF id = "r" THEN graph.rslug ELSE <<"s">> >>),
   Keywords |-> Absent]

\* _, childPages := extractPageRelations(page)
ChildPages(graph, id) == graph.sub[id]

\* what fetchPageContent can return to pageToMarkdown: an error, the
\* blocks of the page, or no block and no error for a response that is
\* not 2xx and carries JSON
ContentAnswers == {"error", "blocks", "not found"}

\* a call of writeMarkdown(outputDir, token, page, position), made as call
\* number call inside the calls anc
NewTree(id, position, call, anc) ==
  [id |-> id, position |-> position, call |-> call, anc |-> anc,
   phase |-> "content", next |-> 1, HasChildren |-> FALSE]

\* an entry of the log
Event(kind, f, slug, computed) ==
  [kind |-> kind, id |-> f.id, call |-> f.call, anc |-> f.anc,
   position |-> f.position, slug |-> slug, computed |-> computed]

TTop == tstack[Len(tstack)]

\* the caller after a call returned: HasChildren is set when the call
\* returned no error, and the range goes on
TreeReturned(stack, err) ==
  LET rest == SubSeq(stack, 1, Len(stack) - 1)
  IN IF rest = <<>> THEN rest
     ELSE [rest EXCEPT ![Len(rest)].next = @ + 1,
                       ![Len(rest)].HasChildren = @ \/ ~err]

InitTree ==
  /\ tgraph = [sub |-> [p |-> <<>>, q |-> <<>>, r |-> <<>>], untitled |-> "",
               rslug |-> <<"s">>]
  /\ tstack = <<>>
  /\ treg = <<>>
  /\ tlog = <<>>
  /\ tphase = "idle"
  /\ tlimited = FALSE
  /\ tfailed = FALSE
  /\ tcalls = 0

\* writeMarkdown(outputDir, token, p, 0) is called on the page p of some
\* relation
TreeCall ==
  /\ tphase = "idle"
  /\ \E graph \in TreeGraphs :
       /\ tgraph' = graph
       /\ tstack' = <<NewTree("p", 0, 1, <<>>)>>
  /\ tphase' = "running"
  /\ tcalls' = 1
  /\ UNCHANGED <<treg, tlog, tlimited, tfailed, exceptTree>>

\* the fetch in progress is answered 429: the fetcher sleeps and sends the
\* request again
TreeLimited ==
  /\ tphase = "running"
  /\ \/ TTop.phase = "content"
     \/ TTop.phase = "children" /\ TTop.next <= Len(ChildPages(tgraph, TTop.id))
  /\ ~tlimited
  /\ tlimited' = TRUE
  /\ UNCHANGED <<tgraph, tstack, treg, tlog, tphase, tfailed, tcalls, exceptTree>>

\* pageToMarkdown in the innermost call: extractPageProperties, which
\* panics on an empty title list; fetchPageContent, whose error is
\* returned by pageToMarkdown and by writeMarkdown; the slug, registered;
\* then extractPageRelations and, for a page with children, the directory
TreeContent ==
  /\ tphase = "running"
  /\ TTop.phase = "content"
  /\ \E answer \in ContentAnswers :
       LET f == TTop
           props == ExtractPageProperties(TreePage(tgraph, f.id))
           computed == StripParens(props.slug)
           slug == Deduplicate(treg, computed)
           childPages == ChildPages(tgraph, f.id)
           made == IF Len(childPages) > 0
                     THEN <<Event("dir", f, <<>>, <<>>)>> ELSE <<>>
       IN IF props.panic
            THEN /\ tphase' = "crashed"
                 /\ UNCHANGED <<tstack, treg, tlog, tfailed>>
            ELSE IF answer = "error"
              THEN /\ tstack' = TreeReturned(tstack, TRUE)
                   /\ tphase' = IF Len(tstack) = 1 THEN "returned" ELSE "running"
                   /\ tlog' = Append(tlog, Event("content error", f, <<>>, <<>>))
                   /\ tfailed' = TRUE
                   /\ UNCHANGED treg
              ELSE /\ treg' = Append(treg, slug)
                   /\ tlog' = tlog
                               \o (IF answer = "not found"
                                     THEN <<Event("content not found", f, <<>>, <<>>)>>
                                     ELSE <<>>)
                               \o <<Event("slug", f, slug, computed)>> \o made
                   /\ tstack' = [tstack EXCEPT ![Len(tstack)].phase = "children"]
                   /\ tfailed' = (tfailed \/ answer = "not found")
                   /\ UNCHANGED tphase
  /\ tlimited' = FALSE
  /\ UNCHANGED <<tgraph, tcalls, exceptTree>>

\* one iteration of the range over childPages: fetchPage fails and the
\* child is skipped, or writeMarkdown is called on the child with its
\* index in the list
TreeChild ==
  /\ tphase = "running"
  /\ TTop.phase = "children"
  /\ TTop.next <= Len(ChildPages(tgraph, TTop.id))
  /\ \E fetchOk \in BOOLEAN :
       LET f == TTop
           child == ChildPages(tgraph, f.id)[f.next]
           g == NewTree(child, f.next - 1, tcalls + 1, Append(f.anc, f.call))
       IN IF ~fetchOk
            THEN /\ tstack' = [tstack EXCEPT ![Len(tstack)].next = @ + 1]
                 /\ tfailed' = TRUE
                 /\ UNCHANGED <<tlog, tcalls>>
            ELSE /\ Len(tstack) < MaxTreeDepth
                 /\ tstack' = Append(tstack, g)
                 /\ tlog' = Append(tlog, Event("fetched", g, <<>>, <<>>))
                 /\ tcalls' = tcalls + 1
                 /\ UNCHANGED tfailed
  /\ tlimited' = FALSE
  /\ UNCHANGED <<tgraph, treg, tphase, exceptTree>>

\* after the range: the category file if a child was written, the file of
\* the page, and the return
TreeFinish ==
  /\ tphase = "running"
  /\ TTop.phase = "children"
  /\ TTop.next > Len(ChildPages(tgraph, TTop.id))
  /\ tlog' = tlog
              \o (IF TTop.HasChildren
                    THEN <<Event("category", TTop, <<>>, <<>>)>> ELSE <<>>)
              \o <<Event(IF TTop.HasChildren THEN "index" ELSE "file", TTop, <<>>, <<>>)>>
  /\ tstack' = TreeReturned(tstack, FALSE)
  /\ tphase' = IF Len(tstack) = 1 THEN "returned" ELSE "running"
  /\ UNCHANGED <<tgraph, treg, tlimited, tfailed, tcalls, exceptTree>>

\* the answers that are not 429 and what follows them
TreeProgress == TreeContent \/ TreeChild \/ TreeFinish

NextTree == TreeCall \/ TreeLimited \/ TreeProgress

(***************************************************************************)
(* The specifications.                                                     *)
(***************************************************************************)
Init ==
  /\ InitCache
  /\ InitFetch
  /\ InitList
  /\ InitSlug
  /\ InitWrite
  /\ InitFormat
  /\ InitTable
  /\ InitRender
  /\ InitTree

SpecCache == Init /\ [][NextCache]_vars

SpecCacheConc == Init /\ [][NextCacheConc]_vars

SpecFetch == Init /\ [][NextFetch]_vars

SpecList == Init /\ [][NextList]_vars

SpecSlug == Init /\ [][NextSlug]_vars

SpecWrite == Init /\ [][NextWrite]_vars

SpecFormat == Init /\ [][NextFormat]_vars

SpecTable == Init /\ [][NextTable]_vars

SpecRender == Init /\ [][NextRender]_vars

SpecTree == Init /\ [][NextTree]_vars

\* every fetch is answered other than 429 in the end, and the code goes on
SpecTreeFair == SpecTree /\ WF_vars(TreeProgress)

(***************************************************************************)
(* Claims about the cache.                                                 *)
(***************************************************************************)
\* a Get of goroutine p has read its result and not yet returned
GetDone(p) == pc[p] = "get_done"

\* a CleanUp of goroutine p has ended its loop and not yet returned
CleanDone(p) == pc[p] = "clean_cs" /\ arg[p].todo = {}

\* C1: after Set(k, v, ttl), a Get(k) made while now < expiry (the time of
\* the last Set(k) + its ttl) returns (v, true), and a Get(k) made after the
\* expiry returns not-found.
C1_GetWithinTTL ==
  \A p \in Procs :
    GetDone(p) /\ arg[p].hist.set =>
      /\ arg[p].at < arg[p].hist.expiry =>
           arg[p].found /\ arg[p].Data = arg[p].hist.data
      /\ arg[p].at > arg[p].hist.expiry => ~arg[p].found

\* a Get made some time after the Set and before the expiry, which hit
C1_Witness ==
  \E p \in Procs :
    /\ GetDone(p) /\ arg[p].hist.set
    /\ arg[p].at > 0 /\ arg[p].at < arg[p].hist.expiry
    /\ arg[p].found /\ arg[p].Data = arg[p].hist.data

\* C2 as stated: Get returns the stored value only if now < expiry; at
\* now = expiry and at every later instant it returns (nil, false), as for a
\* key that was never set.
C2_Original ==
  \A p \in Procs :
    GetDone(p) =>
      /\ arg[p].found => arg[p].hist.set /\ arg[p].at < arg[p].hist.expiry
      /\ (~arg[p].hist.set \/ arg[p].at >= arg[p].hist.expiry) =>
           arg[p].Data = Nil /\ ~arg[p].found

\* C2, amended: Get returns the stored value only if now <= expiry; at every
\* instant later than the expiry it returns (nil, false), as for a key that
\* was never set.
C2_GetUntilExpiry ==
  \A p \in Procs :
    GetDone(p) =>
      /\ arg[p].found =>
           /\ arg[p].hist.set /\ arg[p].at <= arg[p].hist.expiry
           /\ arg[p].Data = arg[p].hist.data
      /\ (~arg[p].hist.set \/ arg[p].at > arg[p].hist.expiry) =>
           arg[p].Data = Nil /\ ~arg[p].found

\* a Get made at the very instant of the expiry: the entry is returned
C2_Witness ==
  \E p \in Procs :
    /\ GetDone(p) /\ arg[p].hist.set
    /\ arg[p].at = arg[p].hist.expiry
    /\ arg[p].found /\ arg[p].Data = arg[p].hist.data

\* C3 as stated: after CleanUp, no entry that was expired at the time of the
\* call is left, and every entry that was not expired at the time of the
\* call is present with its value and expiry unchanged.
C3_Original ==
  \A p \in Procs :
    CleanDone(p) =>
      \A k \in DOMAIN arg[p].before :
        IF arg[p].before[k].ExpiresAt < arg[p].calledAt
          THEN k \notin DOMAIN items
          ELSE k \in DOMAIN items /\ items[k] = arg[p].before[k]

\* C3, amended: after CleanUp, no entry that was expired at the time of the
\* call is left, and every entry that is not expired when CleanUp returns is
\* present with its value and expiry unchanged (an entry whose expiry passes
\* during the call may be removed: the loop reads the clock for each entry).
C3_CleanUpFrame ==
  \A p \in Procs :
    CleanDone(p) =>
      \A k \in DOMAIN arg[p].before :
        /\ arg[p].before[k].ExpiresAt < arg[p].calledAt => k \notin DOMAIN items
        /\ ~(arg[p].before[k].ExpiresAt < now) =>
             k \in DOMAIN items /\ items[k] = arg[p].before[k]

\* a CleanUp that removed an expired entry and kept one that was not
C3_Witness ==
  \E p \in Procs :
    /\ CleanDone(p)
    /\ \E k1, k2 \in DOMAIN arg[p].before :
         /\ arg[p].before[k1].ExpiresAt < arg[p].calledAt /\ k1 \notin DOMAIN items
         /\ ~(arg[p].before[k2].ExpiresAt < now)
         /\ k2 \in DOMAIN items /\ items[k2] = arg[p].before[k2]

\* C4: no Set or CleanUp is inside the item map while another Set, CleanUp
\* or Get is (several Gets may be), the mutex counts who is inside, and no
\* Set is lost: every key holds what its last Set stored, until a CleanUp
\* removes it after its expiry.
C4_Exclusion ==
  /\ \A p, q \in Procs : p # q /\ Writing(p) => ~Accessing(q)
  /\ mu.w = (\E p \in Procs : Writing(p))
  /\ mu.readerCount = Cardinality({p \in Procs : Reading(p)})
  /\ \A k \in Keys :
       lastSet[k].set =>
         \/ /\ k \in DOMAIN items
            /\ items[k].Data = lastSet[k].data
            /\ items[k].ExpiresAt = lastSet[k].expiry
         \/ k \notin DOMAIN items /\ lastSet[k].expiry < now

\* a Set called while another goroutine was inside a Set of the other key
\* has written, and both keys hold what was stored
C4_Witness ==
  \E p \in Procs :
    /\ pc[p] = "set_done" /\ arg[p].overlaps
    /\ \A k \in Keys :
         /\ lastSet[k].set /\ k \in DOMAIN items
         /\ items[k].Data = lastSet[k].data

(***************************************************************************)
(* Claims about the fetcher.                                               *)
(***************************************************************************)
\* a fetch call is in progress or has just returned
InFetch == fpc \in {"await", "returned"}

\* the last outcome the call in progress has received
LastOutcome == fresps[Len(fresps)]

\* the outcome is an HTTP 429 response
Is429(o) == o.sent /\ o.status = 429

\* the outcome is an HTTP 429 response whose body was read
Is429Read(o) == o.sent /\ o.status = 429 /\ o.readOk

\* C5: when a fetch operation has returned successfully for an id, a later
\* call of the same operation for the same id made less than 600 seconds
\* afterwards sends no HTTP request and returns the cached decoded value.
C5_Original ==
  (InFetch /\ fcall.prior.set /\ fcall.calledAt - fcall.prior.at < FetchTTL) =>
    /\ freqs = <<>>
    /\ fpc = "returned" /\ fret.fromCache
    /\ ~fret.err /\ fret.data = fcall.prior.data

\* C6 as stated: each HTTP 429 response is followed by a re-issue of the
\* same request, a 429 is never what the call returns on, and the call
\* returns exactly on the first outcome that is not a 429 response.
C6_Original ==
  InFetch =>
    /\ \A i \in DOMAIN fresps :
         Is429(fresps[i]) => i + 1 \in DOMAIN freqs /\ freqs[i + 1] = freqs[i]
    /\ \A i \in 1..(Len(fresps) - 1) : Is429(fresps[i])
    /\ fpc = "await" => \A i \in DOMAIN fresps : Is429(fresps[i])
    /\ (fpc = "returned" /\ fresps # <<>>) => ~Is429(LastOutcome)

\* C6, amended: each HTTP 429 response whose body was read is followed by a
\* re-issue of the same request (same id, same cursor), however many came
\* before; the call never returns on such a response, and it returns exactly
\* on the first outcome that is not one (a request that failed, a response
\* whose body could not be read, a response of another status).
C6_RetryOn429 ==
  InFetch =>
    /\ Len(freqs) = Len(fresps) + (IF fpc = "await" THEN 1 ELSE 0)
    /\ \A i \in DOMAIN fresps :
         Is429Read(fresps[i]) => i + 1 \in DOMAIN freqs /\ freqs[i + 1] = freqs[i]
    /\ \A i \in DOMAIN freqs :
         freqs[i] = Request(fcall.op, fcall.id, fcall.cursor)
    /\ \A i \in 1..(Len(fresps) - 1) : Is429Read(fresps[i])
    /\ fpc = "await" => \A i \in DOMAIN fresps : Is429Read(fresps[i])
    /\ (fpc = "returned" /\ fresps # <<>>) => ~Is429Read(LastOutcome)

\* a call with a cursor that was answered 429 twice and then returned a value
C6_Witness ==
  /\ fpc = "returned" /\ fcall.cursor # ""
  /\ Len(fresps) = 3 /\ Is429Read(fresps[1]) /\ Is429Read(fresps[2])
  /\ Len(freqs) = 3 /\ ~fret.err

\* C7: when the response has a status that is neither 2xx nor 429, or a body
\* that is no JSON, the call returns an error (sending nothing more) and has
\* stored nothing in the cache.
C7_Original ==
  (fpc = "returned" /\ fresps # <<>>
     /\ LastOutcome.sent /\ LastOutcome.readOk
     /\ \/ LastOutcome.status \notin (200..299) \cup {429}
        \/ LastOutcome.status # 429 /\ LastOutcome.body.json = "garbage") =>
    /\ fret.err
    /\ fcache = NewCache

\* C19: every request fetchChildren sends carries the query parameter
\* page_size=100, and with a cursor it carries start_cursor=<cursor> as well
C19_Original ==
  (InFetch /\ fcall.op = "fetchChildren") =>
    \A i \in 1..Len(freqs) :
      freqs[i].rawQuery =
        IF fcall.cursor = "" THEN "page_size=100"
        ELSE "page_size=100&start_cursor=" \o fcall.cursor

(***************************************************************************)
(* Claims about the listing loops (SpecList).                              *)
(***************************************************************************)
\* what holds of one call of a listing loop: one response per call of the
\* fetcher (but for the call that failed), the first call passes the empty
\* cursor, each later call the next_cursor of the response before it, no
\* call follows a response without has_more, and at the loop test the loop
\* goes on exactly if it has no response yet or the last one has has_more
LoopPaginates(f) ==
  /\ Len(f.calls) = Len(f.resps) + (IF f.phase = "error" THEN 1 ELSE 0)
  /\ f.calls # <<>> => f.calls[1] = ""
  /\ \A i \in 2..Len(f.calls) : f.calls[i] = f.resps[i - 1].NextCursor
  /\ \A i \in 1..(Len(f.calls) - 1) : f.resps[i].HasMore
  /\ f.phase = "head" =>
       (f.hasMore <=> (f.resps = <<>> \/ LastResp(f).HasMore))

\* C8: each listing loop (processBlocks, fetchTableContent,
\* processDatabases) calls the fetcher once per page, with the empty cursor
\* first and then with the next_cursor of the response before, and stops
\* after the first response whose has_more is false
C8_ListingLoops == \A i \in 1..Len(lstack) : LoopPaginates(lstack[i])

\* a processBlocks called on a child page is about to return after three
\* pages, while its caller is in its second page
C8_Witness ==
  /\ Len(lstack) = 2
  /\ Len(lstack[1].calls) = 2 /\ lstack[1].calls[2] = "c1"
  /\ Top.fn = "processBlocks" /\ Top.phase = "head" /\ ~Top.hasMore
  /\ Top.calls = <<"", "c1", "c2">>
  /\ ~LastResp(Top).HasMore

\* C13: a fetch failure other than a 429 in the listing of processBlocks,
\* at any depth of child pages, halts the run: after it no request is sent
\* and no file is written
C13_Original == (lfailed => lhalt) /\ ~lafter

(***************************************************************************)
(* Claims about the slug registry (SpecSlug).                              *)
(***************************************************************************)
Entries(registry) == {registry[i] : i \in 1..Len(registry)}
Dup(str) == str \o <<"-", "d", "u", "p">>
In == <<"i", "n">>

\* C9: when pageToMarkdown has computed the slug s, it emits s if s was
\* not in the registry and s followed by "-dup" if it was, and appends what
\* it emits to the registry; the registry is at all times the sequence of
\* all the slugs emitted so far, so no entry is ever removed (and a call
\* that returns an error leaves it as it was)
C9_DupSuffix ==
  /\ slugRegistered = emitted
  /\ (lastDoc.called /\ lastDoc.err) => slugRegistered = lastDoc.before
  /\ (lastDoc.called /\ ~lastDoc.err) =>
       /\ lastDoc.computed \notin Entries(lastDoc.before)
            => lastDoc.slug = lastDoc.computed
       /\ lastDoc.computed \in Entries(lastDoc.before)
            => lastDoc.slug = Dup(lastDoc.computed)
       /\ slugRegistered = Append(lastDoc.before, lastDoc.slug)

\* two pages whose computed slugs are both "in" have been emitted as in and
\* in-dup
C9_Witness ==
  /\ lastDoc.called /\ ~lastDoc.err
  /\ lastDoc.computed = In
  /\ lastDoc.before = <<In>>
  /\ emitted = <<In, Dup(In)>>

\* C10: the slugs emitted into front matter so far are pairwise distinct,
\* and the slug registry holds no string twice, however many pages share a
\* computed slug
C10_Original ==
  /\ \A i, j \in 1..Len(emitted) : i # j => emitted[i] # emitted[j]
  /\ \A i, j \in 1..Len(slugRegistered) :
       i # j => slugRegistered[i] # slugRegistered[j]

(***************************************************************************)
(* Claims about writeMarkdown (SpecWrite).                                 *)
(***************************************************************************)
FileAt(dir, name) == \E i \in 1..Len(files) : files[i].dir = dir /\ files[i].name = name

\* C11: a page without Sub-Items is written as dir/<pageID>.md, with no
\* subdirectory and no category file of its own; a page that lists at
\* least one child is written as dir/<pageID>/index.md together with
\* dir/<pageID>/_category_.json, which carries its title as label and its
\* position, also when fetching or writing its children fails
C11_Original ==
  \A c \in wdone :
    ~c.err =>
      LET sub == Append(c.outputDir, c.page.ID)
      IN IF c.page.childPages = <<>>
           THEN /\ FileAt(c.outputDir, c.page.ID \o ".md")
                /\ \A i \in 1..Len(files) :
                     (files[i].run = c.run /\ files[i].owner = sub)
                       => /\ files[i].dir = c.outputDir
                          /\ files[i].name = c.page.ID \o ".md"
           ELSE /\ FileAt(sub, "index.md")
                /\ \E i \in 1..Len(files) :
                     /\ files[i].dir = sub /\ files[i].name = "_category_.json"
                     /\ files[i].label = JsonEscape(c.page.title)
                     /\ files[i].position = c.position

\* C12: the files of every page below a page (its children and the pages
\* below them) are written before the file of the page and before its
\* category file
IsBelow(p, q) == Len(p) > Len(q) /\ SubSeq(p, 1, Len(q)) = q

C12_ChildrenFirst ==
  \A i, j \in 1..Len(files) :
    (files[i].run = files[j].run /\ IsBelow(files[j].owner, files[i].owner))
      => j < i

\* a page, its child and the child of its child are written, the category
\* files of the two parents included: five files
C12_Witness ==
  /\ Len(files) = 5
  /\ files[1].owner = <<"out", "p", "a", "a">>
  /\ files[5].owner = <<"out", "p">> /\ files[5].name = "index.md"
  /\ files[4].name = "_category_.json" /\ files[4].owner = <<"out", "p">>

\* C15: extractPageProperties (and extractPageRelations) never end the
\* run: whatever is absent, empty or of another shape in the properties of
\* a page, the call returns the defaults
C15_Original == ~crashed

(***************************************************************************)
(* Claims about formatBlockHTML (SpecFormat).                              *)
(***************************************************************************)
\* the tags by flag, outermost first
TagOrder == <<"Code", "Strikethrough", "Underline", "Italic", "Bold">>

OpenTag(flag) ==
  CASE flag = "Bold" -> "<strong>" [] flag = "Italic" -> "<em>"
    [] flag = "Underline" -> "<u>" [] flag = "Strikethrough" -> "<del>"
    [] flag = "Code" -> "<code>"

CloseTag(flag) ==
  CASE flag = "Bold" -> "</strong>" [] flag = "Italic" -> "</em>"
    [] flag = "Underline" -> "</u>" [] flag = "Strikethrough" -> "</del>"
    [] flag = "Code" -> "</code>"

Count(str, piece) == Cardinality({i \in 1..Len(str) : str[i] = piece})
Position(str, piece) == CHOOSE i \in 1..Len(str) : str[i] = piece

\* C16: for each of the 32 combinations of the flags, the result holds the
\* opening and the closing tag of every set flag once and no tag of an
\* unset flag, and the tags are nested bold innermost, then italic,
\* underline, strikethrough, and code outermost
C16_NestedTags ==
  formatted.called =>
    LET ann == formatted.rt.Annotations
        out == formatted.out
    IN /\ \A k \in 1..5 :
            LET n == IF ann[TagOrder[k]] THEN 1 ELSE 0
            IN /\ Count(out, OpenTag(TagOrder[k])) = n
               /\ Count(out, CloseTag(TagOrder[k])) = n
       /\ \A k, l \in 1..5 :
            (k < l /\ ann[TagOrder[k]] /\ ann[TagOrder[l]]) =>
              /\ Position(out, OpenTag(TagOrder[k])) < Position(out, OpenTag(TagOrder[l]))
              /\ Position(out, CloseTag(TagOrder[l])) < Position(out, CloseTag(TagOrder[k]))
       /\ \A k \in 1..5 :
            ann[TagOrder[k]] =>
              \A i \in 1..Len(out) :
                (out[i] \notin {OpenTag(TagOrder[m]) : m \in 1..5}
                             \cup {CloseTag(TagOrder[m]) : m \in 1..5})
                  => /\ Position(out, OpenTag(TagOrder[k])) < i
                     /\ i < Position(out, CloseTag(TagOrder[k]))

\* a run with all five flags set has been formatted
C16_Witness ==
  /\ formatted.called
  /\ \A k \in 1..5 : formatted.rt.Annotations[TagOrder[k]]
  /\ formatted.out = <<"<code>", "<del>", "<u>", "<em>", "<strong>", "x",
                       "</strong>", "</em>", "</u>", "</del>", "</code>">>

(***************************************************************************)
(* Claims about renderTable (SpecTable).                                   *)
(***************************************************************************)
\* the position of the k-th occurrence of a piece
NthPosition(str, piece, k) ==
  CHOOSE i \in 1..Len(str) :
    str[i] = piece /\ Cardinality({j \in 1..i : str[j] = piece}) = k

Between(str, a, b) == SubSeq(str, a + 1, b - 1)

\* the cells of row k of the rows are the cells between the k-th <tr> and
\* the k-th </tr>, each between the tags open and close and none between
\* the other pair, with the text of its runs in which every pipe is the
\* entity
RowRendered(out, k, row, fetched, open, close, other) ==
  LET a == NthPosition(out, "<tr>", k)
      b == NthPosition(out, "</tr>", k)
      seg == Between(out, a, b)
  IN /\ a < b
     /\ Count(seg, open) = Len(row.Cells)
     /\ Count(seg, close) = Len(row.Cells)
     /\ Count(seg, other) = 0
     /\ seg[1] = open /\ seg[Len(seg)] = close
     /\ \A c \in 1..Len(row.Cells) :
          LET text == Between(seg, NthPosition(seg, open, c),
                              NthPosition(seg, close, c))
          IN /\ Count(text, "|") = 0
             /\ ReplaceAll(text, "&#124;", <<"|">>)
                  = Concat([i \in 1..Len(row.Cells[c]) |->
                              CellRun(row.Cells[c][i], fetched)])
             /\ c < Len(row.Cells) =>
                  NthPosition(seg, open, c + 1) = NthPosition(seg, close, c) + 1

\* C17: for a table with at least one row, the result is <table>, one
\* <tr>..</tr> per row in the order of the rows, and </table>; the cells of
\* the first row are in <th>, those of every later row in <td>; every pipe
\* of a cell text is the entity &#124;
C17_TableRows ==
  (rendered.called /\ ~rendered.tableIsNil /\ Len(rendered.rows) >= 1) =>
    LET out == rendered.out
        rows == rendered.rows
    IN /\ out[1] = "<table>" /\ out[Len(out)] = "</table>"
       /\ Count(out, "<table>") = 1 /\ Count(out, "</table>") = 1
       /\ Count(out, "<tr>") = Len(rows) /\ Count(out, "</tr>") = Len(rows)
       /\ NthPosition(out, "<tr>", 1) = 2
       /\ NthPosition(out, "</tr>", Len(rows)) = Len(out) - 1
       /\ \A k \in 1..Len(rows) :
            /\ k < Len(rows) =>
                 NthPosition(out, "<tr>", k + 1) = NthPosition(out, "</tr>", k) + 1
            /\ IF k = 1
                 THEN RowRendered(out, k, rows[k], rendered.fetched,
                                  "<th>", "</th>", "<td>")
                 ELSE RowRendered(out, k, rows[k], rendered.fetched,
                                  "<td>", "</td>", "<th>")

\* a table of two rows and two columns, with a pipe in a bold cell
C17_Witness ==
  /\ rendered.called /\ ~rendered.tableIsNil
  /\ Len(rendered.rows) = 2
  /\ rendered.out =
       <<"<table>", "<tr>", "<th>", "x", "</th>", "<th>", "x", "</th>", "</tr>",
         "<tr>", "<td>", "<strong>", "c", "&#124;", "</strong>", "</td>",
         "<td>", "x", "</td>", "</tr>", "</table>">>


(***************************************************************************)
(* Claims on blocksToMarkdown (SpecRender).                                *)
(***************************************************************************)
\* sub occurs in str as a run of consecutive pieces
Contains(str, sub) ==
  \E i \in 0..(Len(str) - Len(sub)) : SubSeq(str, i + 1, i + Len(sub)) = sub

\* the runs other than mentions
WithoutMentions(richText) == SelectSeq(richText, LAMBDA t : t.Type # "mention")

\* the link written for a page that has neither title nor slug
EmptyLink == <<"[", "]", "(", ")">>

\* a paragraph whose mention is left out, or is replaced by link
ParagraphWith(richText, link) ==
  Concat([i \in 1..Len(richText) |->
            IF richText[i].Type = "mention" THEN link
            ELSE FormatBlockHTML(richText[i])]) \o <<"  \n">>

\* the rows with the mentions taken out of every cell
RowsWithoutMentions(rows) ==
  [r \in 1..Len(rows) |->
     [Cells |-> [c \in 1..Len(rows[r].Cells) |-> WithoutMentions(rows[r].Cells[c])]]]

\* the iteration fetched the children of its block
FetchedChildren(l) == l.block.HasChildren /\ ~l.continue

\* C14: a fetch failure met while resolving a nested reference never
\* aborts the rendering.  pageToMarkdown returns an error only when the
\* listing of the page body itself fails, before any block is rendered.
\* An iteration whose mention cannot be fetched writes the paragraph
\* without that mention and with all its other runs (with an empty link
\* when the failure came back as a page without properties); a link whose
\* page cannot be fetched writes nothing; a table whose rows cannot be
\* fetched writes the placeholder, and a table whose cell mentions a page
\* that cannot be fetched writes its rows without that mention; a block
\* whose children cannot be fetched adds nothing after its own text.  In
\* every case the range goes on with the blocks that are left, and the
\* text of the iteration is part of the document that is returned.
C14_NestedFailureDegrades ==
  /\ rphase = "error" => ~rlast.seen
  /\ rlast.seen =>
       /\ (rlast.block.Type = "paragraph" /\ rlast.fetched.err)
            => rlast.text = ParagraphWith(rlast.block.RichText, <<>>)
       /\ (rlast.block.Type = "paragraph" /\ rlast.fetched = NotFoundPage)
            => rlast.text = ParagraphWith(rlast.block.RichText, EmptyLink)
       /\ (rlast.block.Type = "link_to_page" /\ rlast.fetched.err)
            => rlast.text = <<>>
       /\ (rlast.block.Type = "table" /\ rlast.rows.err)
            => rlast.text = <<"[Error: Could not fetch table content]\n">>
       /\ (rlast.block.Type = "table" /\ ~rlast.rows.err /\ rlast.fetched.err)
            => rlast.text
                 = RenderTable(FALSE, RowsWithoutMentions(rlast.rows.rows), FetchErr)
                     \o <<"  \n">>
       /\ (FetchedChildren(rlast) /\ rlast.children.err
             /\ rphase = "running" /\ Len(rstack) >= rlast.depth)
            => /\ Len(rstack) = rlast.depth
               /\ rstack[rlast.depth].out = rlast.before \o rlast.text
       /\ rlast.left > 1
            => /\ rphase = "running"
               /\ Len(rstack) >= rlast.depth
               /\ rstack[rlast.depth].left = rlast.left - 1
       /\ rphase = "done" => Contains(rout, rlast.before \o rlast.text)

\* the document was returned, and its last block is the paragraph whose
\* mention could not be fetched: the runs around the mention are there
C14_Witness ==
  /\ rphase = "done"
  /\ rlast.seen
  /\ rlast.block.Type = "paragraph"
  /\ rlast.fetched.err
  /\ rlast.left = 1
  /\ rlast.depth = 2
  /\ Contains(rout, <<"x", "<strong>", "y", "</strong>", "  \n">>)

\* the types that have a case of their own in the switch
Recognised ==
  {"paragraph", "heading_1", "heading_2", "heading_3", "bulleted_list_item",
   "table", "table_row", "divider", "numbered_list_item", "to_do", "code",
   "quote", "callout", "image", "file", "bookmark", "link_to_page"}

\* C18 (as stated): a block whose type is "unsupported" or is not one of
\* the recognised types adds a placeholder that names the type.
C18_Original ==
  (rlast.seen /\ rlast.block.Type \notin Recognised)
    => Contains(rlast.text, <<"[Unsupported block type: ", rlast.block.Type, "]">>)

\* C20 (as stated): the document contains the rendering of every block of
\* a listing, on every page of the listing.
C20_Original ==
  (rphase = "done" /\ rmore)
    => Contains(rout, Switch(MoreBlock, FALSE, FetchErr, RowsErr).text)


\* the block types that carry rich text
TextBearing ==
  {"paragraph", "heading_1", "heading_2", "heading_3", "bulleted_list_item",
   "numbered_list_item", "to_do", "quote", "callout", "code"}

\* the mention runs of a block
Mentions(block) == SelectSeq(block.RichText, LAMBDA t : t.Type = "mention")

\* C21 (as stated): a mention run inside a text-bearing block is displayed
\* as the link to its page and never as its own plain_text.
C21_Original ==
  (rlast.seen /\ rlast.block.Type \in TextBearing)
    => \A i \in 1..Len(Mentions(rlast.block)) :
         ~Contains(rlast.text, Mentions(rlast.block)[i].PlainText)

\* C22 (as stated): in every text-bearing block each run that is not a
\* mention is displayed as the styling rule of formatBlockHTML gives it.
C22_Original ==
  (rlast.seen /\ rlast.block.Type \in TextBearing)
    => \A i \in 1..Len(rlast.block.RichText) :
         rlast.block.RichText[i].Type # "mention"
           => Contains(rlast.text, FormatBlockHTML(rlast.block.RichText[i]))

\* C23 (as stated): a child_page block adds no text to the document.
C23_Original ==
  (rlast.seen /\ rlast.block.Type = "child_page") => rlast.text = <<>>


(***************************************************************************)
(* Claims on writeMarkdown over a Sub-Items relation (SpecTree).           *)
(***************************************************************************)
\* the pages that the pages of S list
Listed(graph, S) ==
  {graph.sub[i][k] : <<i, k>> \in {x \in S \X (1..2) : x[2] <= Len(graph.sub[x[1]])}}

\* the pages reached from the pages of S in one step or more
Below(graph, S) ==
  LET one == Listed(graph, S)
      two == one \cup Listed(graph, one)
  IN two \cup Listed(graph, two)

\* a cycle of the relation can be reached from the written page p
Cyclic(graph) == \E i \in {"p"} \cup Below(graph, {"p"}) : i \in Below(graph, {i})

\* the call of writeMarkdown has ended: it returned, or the process ended
Terminated == tphase \in {"returned", "crashed"}

\* C25 (as stated): on an acyclic relation, with every fetch answered in
\* the end, writeMarkdown terminates; on a relation with a cycle that can
\* be reached, with no fetch failing, it never does.
C25_Original ==
  /\ (tphase = "running" /\ ~Cyclic(tgraph)) ~> Terminated
  /\ []((tphase # "idle" /\ Cyclic(tgraph) /\ ~tfailed) => ~Terminated)

\* the entry e is of the call c or of a call inside it
Within(e, c) == e.call = c \/ \E k \in 1..Len(e.anc) : e.anc[k] = c

\* C26 (as stated): when the fetch of the block content of a page fails,
\* nothing else happens for the page: no slug is registered, no directory
\* or file is made, no child page is fetched or written.
C26_Original ==
  \A i \in 1..Len(tlog) :
    tlog[i].kind \in {"content error", "content not found"}
      => \A j \in 1..Len(tlog) :
           (j > i /\ Within(tlog[j], tlog[i].call)) => FALSE

\* the entries of the log that register a slug, and that write the file
\* of a page
SlugEntries == {i \in 1..Len(tlog) : tlog[i].kind = "slug"}
FileEntries == {i \in 1..Len(tlog) : tlog[i].kind \in {"file", "index"}}

\* the call of entry i encloses the call of entry j
Encloses(i, j) == tlog[i].call # tlog[j].call /\ Within(tlog[j], tlog[i].call)



\* C27 (amended): the slug of a page is registered before the slug of
\* every page written inside its call, and its file is written after
\* theirs.  A page that computes the slug of a page whose call encloses
\* its own is given that slug with "-dup"; the enclosing page has the
\* plain slug exactly when no page registered it earlier, and the slug
\* with "-dup" otherwise.
C27_ParentSlugFirst ==
  /\ \A i, j \in SlugEntries : Encloses(i, j) => i < j
  /\ \A i, j \in FileEntries : Encloses(i, j) => j < i
  /\ \A i, j \in SlugEntries :
       (Encloses(i, j) /\ tlog[i].computed = tlog[j].computed)
         => tlog[j].slug = Dup(tlog[j].computed)
  /\ \A i \in SlugEntries :
       tlog[i].slug =
         IF \E k \in SlugEntries : k < i /\ tlog[k].slug = tlog[i].computed
           THEN Dup(tlog[i].computed) ELSE tlog[i].computed

\* a page and a page below it computed the same slug, the one below got
\* "-dup", and the file of the one below was written first
C27_Witness ==
  /\ tphase = "returned"
  /\ \E i, j \in SlugEntries :
       /\ Encloses(i, j)
       /\ tlog[i].computed = tlog[j].computed
       /\ tlog[i].slug = tlog[i].computed
       /\ tlog[j].slug = Dup(tlog[i].computed)
       /\ \E a, b \in FileEntries :
            /\ tlog[a].call = tlog[i].call
            /\ tlog[b].call = tlog[j].call
            /\ b < a

\* C27 (as stated): as above, and of a page and a page below it that
\* compute the same slug, the upper one keeps the plain slug.
C27_Original ==
  /\ \A i, j \in SlugEntries : Encloses(i, j) => i < j
  /\ \A i, j \in FileEntries : Encloses(i, j) => j < i
  /\ \A i, j \in SlugEntries :
       (Encloses(i, j) /\ tlog[i].computed = tlog[j].computed)
         => /\ tlog[i].slug = tlog[i].computed
            /\ tlog[j].slug = Dup(tlog[j].computed)


(***************************************************************************)
(* Claims on the position of a written page (SpecWrite).                   *)
(***************************************************************************)
\* the file was written for a page that processBlocks reached through a
\* link_to_page result
TopLevel(file) == Len(file.owner) = Len(OutputDir) + 1

\* C24: the position written for a page reached through a link_to_page
\* result is the number of results, of every type, before that result in
\* the response that holds it, so that it starts at 0 again with every
\* response; the position of a child page is the number of ids before its
\* own in the Sub-Items list of its parent.
C24_PositionIsIndex ==
  /\ \A i \in 1..Len(files) :
       /\ files[i].position = files[i].place.at - 1
       /\ Len(files[i].place.list) = files[i].place.at
       /\ files[i].place.list[files[i].place.at]
            = IF TopLevel(files[i]) THEN "link_to_page"
              ELSE files[i].owner[Len(files[i].owner)]
  /\ wstack # <<>> =>
       /\ wstack[1].place.list = SubSeq(wloop.results, 1, wloop.index)
       /\ wstack[1].position = wloop.index - 1
       /\ \A k \in 2..Len(wstack) :
            /\ wstack[k].place.list
                 = SubSeq(wstack[k - 1].page.childPages, 1, wstack[k - 1].next)
            /\ wstack[k].position = wstack[k - 1].next - 1
            /\ wstack[k].page.ID = wstack[k - 1].page.childPages[wstack[k].position + 1]

\* three pages were written for link_to_page results: two at position 0,
\* from two responses, and one at position 1 after a block of another type
C24_Witness ==
  \E i, j, k \in 1..Len(files) :
    /\ TopLevel(files[i]) /\ TopLevel(files[j]) /\ TopLevel(files[k])
    /\ files[i].run # files[j].run
    /\ files[i].position = 0 /\ files[j].position = 0
    /\ files[k].position = 1
    /\ files[k].place.list = <<"paragraph", "link_to_page">>

====
